---- MODULE Spec2Model ----
(***************************************************************************)
(* A model of the Lisp interpreter of src/lisp/lisp.c (the second, current *)
(* copy of the interpreter, lines 1358-3776): the heap registry and the    *)
(* mark-and-sweep collector, the environment chain, the reader over a      *)
(* token stream, and the evaluator with its special forms, application     *)
(* protocol, quasiquote engine and built-ins.                              *)
(*                                                                         *)
(* An Object* is a natural number (NULL is 0); an Env* is an index into    *)
(* the sequence of frames (NULL is 0).  The C call stack is the sequence   *)
(* st.k of activation records, one per C function that is waiting for a    *)
(* callee; st.c is the call being made or the value being returned.  One   *)
(* step of the interpreter runs the C code from one call or return to the  *)
(* next.                                                                   *)
(***************************************************************************)
EXTENDS Integers, Sequences, FiniteSets, TLC

VARIABLES
    st,        \* the interpreter: heap registry, GC counters, frames, C stack, logs
    pending,   \* the texts (REPL lines / files) main has not handed to exec yet
    pc,        \* where main is: "boot", "idle", "exec", "done", "crashed"
    lx         \* the lexer at work on the characters of a text: text, cursor, token

vars == <<st, pending, pc, lx>>

NULL == 0

(***************************************************************************)
(* Objects (struct Object, lisp.c:1410-1421).  The union is flattened:     *)
(* every record has every field, the unused ones holding 0 or "".          *)
(***************************************************************************)
BlankObject ==
    [type |-> "NUMBER", num |-> 0, str |-> "", car |-> NULL, cdr |-> NULL,
     is_user_defined |-> 0, is_macro |-> 0, rest_arg |-> 0,
     args |-> NULL, body |-> NULL, env |-> NULL, fn |-> "",
     next |-> NULL, prev |-> NULL, marked |-> 0, freed |-> FALSE]

\* R packs what a C function returns (v) with the state it leaves (st).
R(v, s) == [v |-> v, st |-> s]

IsAlloc(s, o) == o # NULL /\ o \in DOMAIN s.heap

\* is_type: a NULL object has no type.
is_type(s, o, t) == IF IsAlloc(s, o) THEN s.heap[o].type = t ELSE FALSE

car(s, o) == IF IsAlloc(s, o) /\ s.heap[o].type = "CONS" THEN s.heap[o].car ELSE NULL

cdr(s, o) == IF IsAlloc(s, o) /\ s.heap[o].type = "CONS" THEN s.heap[o].cdr ELSE NULL

setcar(s, o, v) ==
    IF IsAlloc(s, o) /\ s.heap[o].type = "CONS"
    THEN [s EXCEPT !.heap[o].car = v]
    ELSE s

setcdr(s, o, v) ==
    IF IsAlloc(s, o) /\ s.heap[o].type = "CONS"
    THEN [s EXCEPT !.heap[o].cdr = v]
    ELSE s

\* A function written out point by point.
Tab(f) == f @@ <<>>

(***************************************************************************)
(* Allocation.  object_new links the new object at the tail of the heap    *)
(* registry and counts it; the new object's address is s.nextid.           *)
(***************************************************************************)
\* gc_new (lisp.c:1571-1577) never assigns gc->tail: the first object_new
\* reads what malloc left there, NULL or the address WILD of no object.  The
\* write through WILD lands outside the heap.
WILD == -1

object_new(s) ==
    LET id == s.nextid
        linked == IF s.tail = NULL \/ s.tail = WILD
                  THEN s.heap
                  ELSE [s.heap EXCEPT ![s.tail].next = id]
    IN [s EXCEPT !.heap = linked @@ (id :> [BlankObject EXCEPT !.prev = s.tail]),
                 !.tail = id,
                 !.nextid = id + 1,
                 !.objects_since_last_collection = @ + 1]

number_new(s, n) ==
    [object_new(s) EXCEPT !.heap[s.nextid].type = "NUMBER", !.heap[s.nextid].num = n]

symbol_new(s, name) ==
    [object_new(s) EXCEPT !.heap[s.nextid].type = "SYMBOL", !.heap[s.nextid].str = name]

string_new(s, str) ==
    [object_new(s) EXCEPT !.heap[s.nextid].type = "STRING", !.heap[s.nextid].str = str]

error_new(s, msg) ==
    [object_new(s) EXCEPT !.heap[s.nextid].type = "ERROR", !.heap[s.nextid].str = msg]

bool_new(s, b) ==
    [object_new(s) EXCEPT !.heap[s.nextid].type = "BOOL",
                          !.heap[s.nextid].num = IF b THEN 1 ELSE 0]

cons_new(s, a, d) ==
    [object_new(s) EXCEPT !.heap[s.nextid].type = "CONS",
                          !.heap[s.nextid].car = a, !.heap[s.nextid].cdr = d]

function_new(s, name) ==
    [object_new(s) EXCEPT !.heap[s.nextid].type = "FUNCTION",
                          !.heap[s.nextid].rest_arg = -1,
                          !.heap[s.nextid].fn = name]

(***************************************************************************)
(* Frames (struct Env, lisp.c:1386-1390).  The hash table of a frame is a  *)
(* function from the bound names to values; frames are never released      *)
(* while the interpreter runs.                                             *)
(***************************************************************************)
env_new(s, prev) ==
    [s EXCEPT !.envs = Append(@, [map |-> <<>>, marked |-> 0, prev |-> prev])]

\* The frame env_new(s, prev) has just created.
NewEnv(s) == Len(s.envs) + 1

MapHas(m, key) == \E i \in DOMAIN m : m[i].key = key

MapIdx(m, key) == CHOOSE i \in DOMAIN m : m[i].key = key

\* map_put: overwrite the entry of an existing key, else add one.
map_put(m, key, obj) ==
    IF MapHas(m, key)
    THEN [m EXCEPT ![MapIdx(m, key)].value = obj]
    ELSE Append(m, [key |-> key, value |-> obj])

env_put(s, env, key, obj) == [s EXCEPT !.envs[env].map = map_put(@, key, obj)]

\* env_get: the first frame of the chain that binds key; entry.key is NULL
\* (found = FALSE) when no frame does.
RECURSIVE env_get(_, _, _)
env_get(s, env, key) ==
    IF env = NULL THEN [found |-> FALSE, value |-> NULL]
    ELSE IF MapHas(s.envs[env].map, key)
         THEN [found |-> TRUE, value |-> s.envs[env].map[MapIdx(s.envs[env].map, key)].value]
         ELSE env_get(s, s.envs[env].prev, key)

(***************************************************************************)
(* True reachability, the reference the collector is judged against:       *)
(* objects and frames reachable from a set of objects and a set of frames  *)
(* through cons car/cdr, a user callable's params, body and captured       *)
(* frame, a frame's bound values and its parent link.                      *)
(***************************************************************************)
ObjSuccs(s, o) ==
    IF ~IsAlloc(s, o) THEN {}
    ELSE CASE s.heap[o].type = "CONS" -> {s.heap[o].car, s.heap[o].cdr} \ {NULL}
           [] s.heap[o].type \in {"FUNCTION", "MACRO"} /\ s.heap[o].is_user_defined = 1 ->
                  {s.heap[o].args, s.heap[o].body} \ {NULL}
           [] OTHER -> {}

ObjEnvs(s, o) ==
    IF IsAlloc(s, o) /\ s.heap[o].type \in {"FUNCTION", "MACRO"}
                     /\ s.heap[o].is_user_defined = 1
    THEN {s.heap[o].env} \ {NULL}
    ELSE {}

EnvValues(s, e) == {s.envs[e].map[i].value : i \in DOMAIN s.envs[e].map} \ {NULL}

RECURSIVE Reach(_, _, _)
Reach(s, O, E) ==
    LET O2 == O \cup UNION {ObjSuccs(s, o) : o \in O} \cup UNION {EnvValues(s, e) : e \in E}
        E2 == E \cup UNION {ObjEnvs(s, o) : o \in O} \cup ({s.envs[e].prev : e \in E} \ {NULL})
    IN IF O2 = O /\ E2 = E THEN [objs |-> O, envs |-> E] ELSE Reach(s, O2, E2)


ReachRoot(s) == Reach(s, {}, {s.gc_env})

(***************************************************************************)
(* The collector (lisp.c:1476-1528, 1615-1678, 1709-1736).  The recursive  *)
(* walks of the C code are computed as the closures they traverse.         *)
(***************************************************************************)
\* What env_mark and object_mark set marked, from the objects O and frames
\* E: env_mark does not enter a frame that is marked already (blocked),
\* object_mark has no such test.
RECURSIVE MarkFrom(_, _, _, _)
MarkFrom(s, blocked, O, E) ==
    LET O2 == O \cup UNION {ObjSuccs(s, o) : o \in O} \cup UNION {EnvValues(s, e) : e \in E}
        E2 == E \cup ((UNION {ObjEnvs(s, o) : o \in O} \cup ({s.envs[e].prev : e \in E} \ {NULL}))
                      \ blocked)
    IN IF O2 = O /\ E2 = E THEN [om |-> O, em |-> E] ELSE MarkFrom(s, blocked, O2, E2)

env_mark(s, env) ==
    LET blocked == {e \in DOMAIN s.envs : s.envs[e].marked = 1}
    IN MarkFrom(s, blocked, {}, {env} \ (blocked \cup {NULL}))

\* The objects of S that lie on or lead to a cycle of car, cdr, args and
\* body links: object_mark never returns from such an object.
RECURSIVE Peel(_, _)
Peel(s, S) ==
    LET T == {o \in S : ObjSuccs(s, o) \cap S # {}}
    IN IF T = S THEN S ELSE Peel(s, T)

\* The registry walked from gc->tail along prev: rank[o] is the number of
\* objects from o to the head, chain the objects the walk meets.  J[o] is
\* the object 2^k links before o and C[o] the number of objects on the way.
RECURSIVE Walk(_, _, _, _)
Walk(J, C, chain, fuel) ==
    IF fuel = 0 \/ \A o \in DOMAIN J : J[o] = NULL
    THEN [rank |-> C, chain |-> chain]
    ELSE Walk(Tab([o \in DOMAIN J |-> IF J[o] = NULL THEN NULL ELSE J[J[o]]]),
              Tab([o \in DOMAIN J |-> C[o] + IF J[o] = NULL THEN 0 ELSE C[J[o]]]),
              chain \cup ({J[o] : o \in chain} \ {NULL}),
              fuel - 1)

\* The walk along prev leaves the registry: an object's prev is WILD.
Stray(s) == \E o \in DOMAIN s.heap : s.heap[o].prev = WILD

Registry(s) ==
    Walk(Tab([o \in DOMAIN s.heap |->
                  IF s.heap[o].prev \in DOMAIN s.heap THEN s.heap[o].prev ELSE NULL]),
         Tab([o \in DOMAIN s.heap |-> 1]),
         {s.tail} \ {NULL},
         Cardinality(DOMAIN s.heap))

\* printf: the text goes to stdout.
printf(s, text) == [s EXCEPT !.out = Append(@, [fd |-> "stdout", obj |-> NULL, type |-> text])]

\* The calls of eval in progress on the C stack.
Evals(s) == Cardinality({i \in DOMAIN s.k : s.k[i].fn = "eval"})

is_debug_enabled(s, env) ==
    LET obj == env_get(s, env, "/lisp/debug-mode").value
    IN is_type(s, obj, "BOOL") /\ s.heap[obj].num = 1

gc_mark(s) ==
    LET m     == env_mark(s, s.gc_env)
        w     == Registry(s)
        total == IF s.tail = NULL THEN 0 ELSE w.rank[s.tail]
        count == Cardinality({o \in w.chain : s.heap[o].marked = 1
                                                \/ (o \in m.om /\ ~s.heap[o].freed)})
        s0    == IF is_debug_enabled(s, s.gc_env)
                 THEN printf(s, "marked " \o ToString(count) \o " objects out of "
                                \o ToString(total) \o " total objects.")
                 ELSE s
    IN [s0 EXCEPT !.heap = Tab([o \in DOMAIN s.heap |->
                              IF o \in m.om /\ ~s.heap[o].freed
                              THEN [s.heap[o] EXCEPT !.marked = 1] ELSE s.heap[o]]),
                 !.envs = Tab([e \in DOMAIN s.envs |->
                              IF e \in m.em THEN [s.envs[e] EXCEPT !.marked = 1] ELSE s.envs[e]]),
                 !.objects_at_last_collection = total,
                 !.uaf = @ \/ \E o \in m.om : IsAlloc(s, o) /\ s.heap[o].freed,
                 !.fault = IF @ = "" /\ Peel(s, m.om) # {} THEN "mark recursion"
                          ELSE IF @ = "" /\ Stray(s) THEN "walk off the registry" ELSE @,
                 !.gclog = Append(@, [op |-> "mark", depth |-> Len(s.k), evals |-> Evals(s)])]

\* The frames env_unmark visits from E: the parent of every frame visited,
\* and the captured frame of every callable bound directly in a visited
\* frame that was marked.
RECURSIVE UnmarkFrom(_, _)
UnmarkFrom(s, E) ==
    LET caps == UNION {{s.heap[v].env : v \in {x \in EnvValues(s, e) :
                                           is_type(s, x, "FUNCTION") \/ is_type(s, x, "MACRO")}}
                       : e \in {x \in E : s.envs[x].marked = 1}}
        E2   == E \cup (({s.envs[e].prev : e \in E} \cup caps) \ {NULL})
    IN IF E2 = E THEN E ELSE UnmarkFrom(s, E2)

env_unmark(s, env) ==
    LET E == UnmarkFrom(s, {env} \ {NULL})
    IN [s EXCEPT !.envs = Tab([e \in DOMAIN s.envs |->
                              IF e \in E THEN [s.envs[e] EXCEPT !.marked = 0] ELSE s.envs[e]])]

\* A sweep that spares the unmarked numbers.
sweep_loop_spare(s) ==
    LET w    == Registry(s)
        keep == {o \in w.chain : s.heap[o].marked = 1 \/ s.heap[o].type = "NUMBER"}
        nth  == Tab([o \in keep |-> Cardinality({x \in keep : w.rank[x] <= w.rank[o]})])
        Kept(n) == IF n = 0 \/ n > Cardinality(keep) THEN NULL
                   ELSE CHOOSE o \in keep : nth[o] = n
    IN [s EXCEPT !.heap = Tab([o \in DOMAIN s.heap |->
                              IF o \in keep
                              THEN [s.heap[o] EXCEPT !.marked = 0, !.prev = Kept(nth[o] - 1),
                                                     !.next = Kept(nth[o] + 1)]
                              ELSE IF o \in w.chain THEN [s.heap[o] EXCEPT !.freed = TRUE]
                              ELSE s.heap[o]]),
                 !.tail = Kept(Cardinality(keep))]

\* gc_sweep's loop over the registry: the unmarked objects are unlinked and
\* released, the marked ones are unmarked and stay linked in their order.
sweep_loop(s) ==
    LET w    == Registry(s)
        keep == {o \in w.chain : s.heap[o].marked = 1}
        \* nth[o]: o is the nth object kept, counted from the head
        nth  == Tab([o \in keep |-> Cardinality({x \in keep : w.rank[x] <= w.rank[o]})])
        Kept(n) == IF n = 0 \/ n > Cardinality(keep) THEN NULL
                   ELSE CHOOSE o \in keep : nth[o] = n
    IN [s EXCEPT !.heap = Tab([o \in DOMAIN s.heap |->
                              IF o \in keep
                              THEN [s.heap[o] EXCEPT !.marked = 0, !.prev = Kept(nth[o] - 1),
                                                     !.next = Kept(nth[o] + 1)]
                              ELSE IF o \in w.chain THEN [s.heap[o] EXCEPT !.freed = TRUE]
                              ELSE s.heap[o]]),
                 !.tail = Kept(Cardinality(keep))]

(***************************************************************************)
(* The reader (lisp.c:3102-3228) over the token stream the lexer yields.   *)
(* A token is [type, value, num]: num is what str_to_int makes of a        *)
(* T_NUMBER's text.  An empty stream reads as T_EOF for ever.  A reader    *)
(* function returns the object (v), the state (st) and the rest (toks).    *)
(***************************************************************************)
Tok(type, value, num) == [type |-> type, value |-> value, num |-> num]

LP == Tok("T_LPAREN", "(", 0)
RP == Tok("T_RPAREN", ")", 0)
QT == Tok("T_QUOTE", "'", 0)
BT == Tok("T_BACKTICK", "backtick", 0)
CM == Tok("T_COMMA", ",", 0)
Num(n) == Tok("T_NUMBER", "", n)
Str(x) == Tok("T_STRING", x, 0)
Sym(x) == Tok("T_SYMBOL", x, 0)
\* White space or a comment before the end of the input: exec's strlen(str)
\* is still positive, the lexer then yields T_EOF and moves to the end.
WS == Tok("T_EOF", "EOF", 0)

peek(toks) == IF toks = <<>> THEN WS ELSE Head(toks)

next(toks) == IF toks = <<>> THEN <<>> ELSE Tail(toks)

is_atom(token) == token.type \in {"T_NUMBER", "T_STRING", "T_SYMBOL"}

is_expr(token) ==
    token.type \in {"T_QUOTE", "T_BACKTICK", "T_COMMA", "T_LPAREN"} \/ is_atom(token)

P(v, s, toks) == [v |-> v, st |-> s, toks |-> toks]

atom(s, toks) ==
    LET token == peek(toks)
    IN CASE token.type = "T_NUMBER" -> P(s.nextid, number_new(s, token.num), next(toks))
         [] token.type = "T_STRING" -> P(s.nextid, string_new(s, token.value), next(toks))
         [] token.type = "T_SYMBOL" -> P(s.nextid, symbol_new(s, token.value), next(toks))
         [] OTHER -> P(NULL, s, next(toks))
(***************************************************************************)
(* The lexer (lisp.c:2421-2593) over the characters of a text.  A text is  *)
(* the sequence of its bytes, as signed char; the zero byte that ends the  *)
(* C string follows the last of them, and what lies after that is outside  *)
(* the string.  The cursor *str is an index p: p = Len(text) + 1 is at the *)
(* zero byte.  A scan function returns the cursor, the buffer it filled    *)
(* and ub: whether it read a byte outside the string.                      *)
(***************************************************************************)
NUL == 0

\* EOF of stdio.h.
EOF == -1

Byte(text, p) == IF p <= Len(text) THEN text[p] ELSE NUL

Outside(text, p) == p > Len(text) + 1

Scanned(p, buff, ub) == [p |-> p, buff |-> buff, ub |-> ub]

is_number(c) == c >= 48 /\ c <= 57

is_printable(c) == c >= 33 /\ c <= 126

is_symbol(c) == is_printable(c) /\ c \notin {40, 41, 39, 96, 44}

is_string(c) == c = 34

RECURSIVE scan_comment(_, _)
scan_comment(text, p) ==
    IF Outside(text, p) THEN Scanned(p, <<>>, TRUE)
    ELSE IF Byte(text, p) # 10 /\ Byte(text, p) # EOF THEN scan_comment(text, p + 1)
    ELSE Scanned(p, <<>>, FALSE)

RECURSIVE scan_string(_, _, _)
scan_string(text, p, buff) ==
    IF Outside(text, p) THEN Scanned(p, buff, TRUE)
    ELSE IF Byte(text, p) # 34 THEN scan_string(text, p + 1, Append(buff, Byte(text, p)))
    ELSE Scanned(p, buff, FALSE)

RECURSIVE scan_symbol(_, _, _)
scan_symbol(text, p, buff) ==
    IF is_symbol(Byte(text, p)) THEN scan_symbol(text, p + 1, Append(buff, Byte(text, p)))
    ELSE Scanned(p, buff, FALSE)

RECURSIVE scan_digits(_, _, _)
scan_digits(text, p, buff) ==
    IF is_number(Byte(text, p)) THEN scan_digits(text, p + 1, Append(buff, Byte(text, p)))
    ELSE Scanned(p, buff, FALSE)

scan_number(text, p) ==
    IF Byte(text, p) = 45 THEN scan_digits(text, p + 1, <<45>>) ELSE scan_digits(text, p, <<>>)

\* token_new and the cursor next leaves; ub: the scan read outside the
\* string, and the token and the cursor are whatever the memory there made
\* of it.
Lexed(type, value, p, ub) == [type |-> type, value |-> value, p |-> p, ub |-> ub]

\* next(str) of the lexer: the token that starts at the cursor p.
RECURSIVE lex_next(_, _)
lex_next(text, p) ==
    LET c   == Byte(text, p)
        cm  == scan_comment(text, p)
        str == scan_string(text, p + 1, <<>>)
        num == scan_number(text, p)
        sym == scan_symbol(text, p, <<>>)
    IN CASE c = NUL -> Lexed("T_EOF", <<69, 79, 70>>, p, FALSE)
         [] c = 40  -> Lexed("T_LPAREN", <<c>>, p + 1, FALSE)
         [] c = 41  -> Lexed("T_RPAREN", <<c>>, p + 1, FALSE)
         [] c = 39  -> Lexed("T_QUOTE", <<c>>, p + 1, FALSE)
         [] c = 44  -> Lexed("T_COMMA", <<c>>, p + 1, FALSE)
         [] c = 96  -> Lexed("T_BACKTICK", <<c>>, p + 1, FALSE)
         [] c \in {32, 9, 13, 10} -> lex_next(text, p + 1)
         [] c = 59  -> IF cm.ub THEN Lexed("T_EOF", <<>>, cm.p, TRUE) ELSE lex_next(text, cm.p)
         [] (c = 45 /\ is_number(Byte(text, p + 1))) \/ is_number(c) ->
                Lexed("T_NUMBER", num.buff, num.p, FALSE)
         [] is_string(c) -> Lexed("T_STRING", str.buff, str.p + 1, str.ub)
         [] is_symbol(c) -> Lexed("T_SYMBOL", sym.buff, sym.p, FALSE)
         \* any other byte: no branch of the loop moves the cursor, next never returns
         [] OTHER -> Lexed("", <<>>, p, FALSE)

\* The C string a buffer holds: its bytes up to the first zero byte.
RECURSIVE CStr(_)
CStr(buff) == IF buff = <<>> \/ Head(buff) = NUL THEN <<>> ELSE <<Head(buff)>> \o CStr(Tail(buff))

\* The characters of the bytes the texts are made of, SOH written ^A.
Chr ==
    (40 :> "(") @@ (41 :> ")") @@ (34 :> "\"") @@ (39 :> "'") @@ (59 :> ";") @@ (45 :> "-")
    @@ (32 :> " ") @@ (10 :> "\n") @@ (97 :> "a") @@ (49 :> "1") @@ (50 :> "2")
    @@ (69 :> "E") @@ (79 :> "O") @@ (70 :> "F") @@ (1 :> "^A")

RECURSIVE Chars(_)
Chars(bytes) == IF bytes = <<>> THEN "" ELSE Chr[Head(bytes)] \o Chars(Tail(bytes))

\* str_to_int: strtol in base 10 of the digits, after an optional minus.
RECURSIVE strtol(_, _)
strtol(bytes, acc) ==
    IF bytes # <<>> /\ is_number(Head(bytes))
    THEN strtol(Tail(bytes), acc * 10 + (Head(bytes) - 48))
    ELSE acc

str_to_int(bytes) ==
    IF bytes # <<>> /\ Head(bytes) = 45 THEN 0 - strtol(Tail(bytes), 0) ELSE strtol(bytes, 0)

\* The token as the reader takes it: type, text and the number of the text.
token_new(lexed) ==
    Tok(lexed.type, Chars(CStr(lexed.value)),
        IF lexed.type = "T_NUMBER" THEN str_to_int(CStr(lexed.value)) ELSE 0)

\* The lexer's state lx: the text, the cursor, the token next made last,
\* the object the reader made of it and whether it has.
NoToken == Lexed("", <<>>, 0, FALSE)

\* No text is being lexed.
NoText == [text |-> <<>>, p |-> 1, tok |-> NoToken, obj |-> NULL, read |-> FALSE]
(***************************************************************************)
(* Helpers of the evaluator (lisp.c:2141-2270, 2668-2701, 2864-2881).      *)
(***************************************************************************)
\* data.num of an object read through the union: a number's or a bool's
\* value; an error's str pointer, one per object; a callable's first bytes.
NumView(s, o) ==
    LET x == s.heap[o]
    IN CASE x.type \in {"NUMBER", "BOOL"} -> <<x.num, 0, 0, 0>>
         [] x.type = "ERROR" -> <<o, 1, 0, 0>>
         [] OTHER -> <<x.is_user_defined, x.is_macro, x.rest_arg % 256, 2>>

RECURSIVE is_equal(_, _, _)
is_equal(s, a, b) ==
    IF IsAlloc(s, a) /\ IsAlloc(s, b) /\ s.heap[a].type = s.heap[b].type
    THEN CASE s.heap[a].type = "NUMBER" -> s.heap[a].num = s.heap[b].num
           [] s.heap[a].type \in {"STRING", "SYMBOL"} -> s.heap[a].str = s.heap[b].str
           [] s.heap[a].type = "CONS" ->
                IF is_equal(s, car(s, a), car(s, b))
                THEN is_equal(s, cdr(s, a), cdr(s, b))
                ELSE FALSE
           [] OTHER -> NumView(s, a) = NumView(s, b)
    ELSE a = NULL /\ b = NULL

type(s, obj) ==
    IF ~IsAlloc(s, obj) THEN "nil"
    ELSE CASE s.heap[obj].type = "NUMBER" -> "number"
           [] s.heap[obj].type = "SYMBOL" -> "symbol"
           [] s.heap[obj].type = "STRING" -> "string"
           [] s.heap[obj].type = "ERROR" -> "error"
           [] s.heap[obj].type = "FUNCTION" -> "function"
           [] s.heap[obj].type = "MACRO" -> "macro"
           [] s.heap[obj].type = "CONS" -> "cons"
           [] s.heap[obj].type = "BOOL" -> "bool"
           [] OTHER -> "unknown"

RECURSIVE length(_, _)
length(s, obj) == IF is_type(s, obj, "CONS") THEN 1 + length(s, cdr(s, obj)) ELSE 0

RECURSIVE find_from(_, _, _, _)
find_from(s, obj, temp, i) ==
    IF temp = NULL THEN -1
    ELSE IF is_equal(s, obj, car(s, temp)) THEN i
    ELSE find_from(s, obj, cdr(s, temp), i + 1)

find(s, obj, lst) == find_from(s, obj, lst, 0)

RECURSIVE last(_, _)
last(s, obj) == IF cdr(s, obj) # NULL THEN last(s, cdr(s, obj)) ELSE obj

is_special_form(s, cons) ==
    LET first == car(s, cons)
    IN is_type(s, first, "SYMBOL") /\
       s.heap[first].str \in {"quote", "quasiquote", "eval", "define", "lambda",
                              "macro", "do", "let", "set", "if"}

is_unquote(s, obj) ==
    is_type(s, obj, "CONS") /\ is_type(s, car(s, obj), "SYMBOL")
                            /\ s.heap[car(s, obj)].str = "unquote"

is_truthy(s, obj) ==
    IF IsAlloc(s, obj)
    THEN CASE s.heap[obj].type \in {"NUMBER", "BOOL"} -> s.heap[obj].num > 0
           [] s.heap[obj].type = "ERROR" -> FALSE
           [] OTHER -> TRUE
    ELSE FALSE

\* copy: a fresh spine for every cons level of obj; the atoms are shared.
\* What is not a cons (nil included) copies to one fresh cell (nil).
RECURSIVE copy(_, _)
RECURSIVE copy_loop(_, _, _, _)

copy_loop(s, temp, cons, prev) ==
    IF is_type(s, temp, "CONS")
    THEN LET sub == is_type(s, car(s, temp), "CONS")
             Next_(s1) == copy_loop(setcdr(cons_new(s1, NULL, NULL), cons, s1.nextid),
                                    cdr(s1, temp), s1.nextid, cons)
         IN Next_(setcar(IF sub THEN copy(s, car(s, temp)).st ELSE s, cons,
                         IF sub THEN s.nextid ELSE car(s, temp)))
    ELSE setcdr(s, prev, NULL)

copy(s, obj) ==
    LET res == s.nextid
    IN R(res, copy_loop(cons_new(s, NULL, NULL), obj, res, res))

\* The symbol a name object carries: name->data.str.
NameOf(s, name) == s.heap[name].str

\* A symbol that begins with ':' is a keyword.
Keywords == {":key", ":else"}

(***************************************************************************)
(* The C stack and the ghost logs.  An activation record names its C       *)
(* function (fn), where in it the function waits (at), and the locals it   *)
(* keeps across the call it waits for.                                     *)
(***************************************************************************)
\* The number of activation records the C stack has room for.
MaxStack == 64

Frame ==
    [fn |-> "", at |-> "", env |-> NULL, local |-> NULL, obj |-> NULL, temp |-> NULL,
     prev |-> NULL, cur |-> NULL, res |-> NULL, function |-> NULL, arr |-> <<>>,
     i |-> 0, n |-> 0, flag |-> 0, toks |-> <<>>, role |-> ""]

\* st.c: a call of fn being made, a value v being returned, or nothing.
Control(mode, fn, env, obj, flag, toks, v, role) ==
    [mode |-> mode, fn |-> fn, env |-> env, obj |-> obj, flag |-> flag, toks |-> toks,
     v |-> v, role |-> role]

Idle == Control("idle", "", NULL, NULL, 0, <<>>, NULL, "")

Fault(s, f) == IF s.fault = "" THEN [s EXCEPT !.fault = f] ELSE s

Top(s) == s.k[Len(s.k)]

Push(s, f) ==
    IF Len(s.k) >= MaxStack THEN Fault(s, "stack overflow")
    ELSE [s EXCEPT !.k = Append(@, f)]

Pop(s) == [s EXCEPT !.k = SubSeq(@, 1, Len(@) - 1)]

SetTop(s, f) == [s EXCEPT !.k[Len(s.k)] = f]

\* role says which sub-expression of the caller's form the callee evaluates.
Call(s, fn, env, obj, flag, role) ==
    [s EXCEPT !.c = Control("call", fn, env, obj, flag, <<>>, NULL, role)]

\* A call that hands over the text to read: parse(&str), exec(env, str).
CallRead(s, fn, env, toks) == [s EXCEPT !.c = Control("call", fn, env, NULL, 0, toks, NULL, "")]

Ret(s, v) == [s EXCEPT !.c = Control("ret", "", NULL, NULL, 0, <<>>, v, "")]

RetRead(s, v, toks) == [s EXCEPT !.c = Control("ret", "", NULL, NULL, 0, toks, v, "")]

\* The objects and frames the C stack holds in locals and arguments.
FrameObjs(f) ==
    ({f.obj, f.temp, f.prev, f.cur, f.res, f.function} \cup {f.arr[i] : i \in DOMAIN f.arr})
    \ {NULL}

StackObjs(s) == UNION {FrameObjs(s.k[i]) : i \in DOMAIN s.k} \cup ({s.c.obj, s.c.v} \ {NULL})

StackEnvs(s) == (UNION {{s.k[i].env, s.k[i].local} : i \in DOMAIN s.k} \cup {s.c.env}) \ {NULL}

ReachStack(s) == Reach(s, StackObjs(s), StackEnvs(s))

\* Released objects nothing can reach any more leave the model's heap; a
\* released object that the root frame or the C stack still reaches stays,
\* flagged freed, as the dangling pointer's target.
Purge(s) ==
    LET keep == ReachRoot(s).objs \cup ReachStack(s).objs
    IN [s EXCEPT !.heap = Tab([o \in {x \in DOMAIN s.heap : ~s.heap[x].freed \/ x \in keep}
                                 |-> s.heap[o]])]

\* The frames of s that neither the root frame nor the C stack reaches, live
\* closures included.
LostFrames(s) == DOMAIN s.envs \ (ReachRoot(s).envs \cup ReachStack(s).envs)

\* What gc_sweep leaves of s, whose registry loop yielded s1.
swept(s, s1) ==
    LET released == {o \in DOMAIN s1.heap : s1.heap[o].freed /\ ~s.heap[o].freed}
        count    == "freed " \o ToString(Cardinality(released)) \o " objects."
    IN [env_unmark(s1, s1.gc_env) EXCEPT
           !.objects_since_last_collection = 0,
           !.survived = Cardinality({o \in DOMAIN s1.heap : ~s1.heap[o].freed}),
           !.sweeps = @ + 1,
           !.fault = IF @ = "" /\ Stray(s) THEN "walk off the registry" ELSE @,
           !.reclaimed = Cardinality(released \ (ReachRoot(s1).objs \cup ReachStack(s1).objs)),
           !.inflight_freed = @ \cup (released \cap ReachStack(s1).objs),
           !.root_freed = @ \cup (released \cap ReachRoot(s1).objs),
           !.gclog = Append(@, [op |-> "sweep", depth |-> Len(s.k), evals |-> Evals(s),
                                 lost |-> LostFrames(s)]),
           !.out = IF is_debug_enabled(s1, s1.gc_env)
                   THEN Append(@, [fd |-> "stdout", obj |-> NULL, type |-> count])
                   ELSE @]

gc_sweep(s) == Purge(swept(s, sweep_loop(s)))

\* The evaluator reads object o: a read of a released object is recorded.
Touch(s, o) ==
    IF IsAlloc(s, o) /\ s.heap[o].freed
    THEN [s EXCEPT !.uaf = TRUE, !.stale = @ \cup {o}]
    ELSE s

\* An event of the log: kind "ret" (eval of form in frame c returned a; role
\* says which sub-expression of the form evaluated at stack depth b it was),
\* "call" (callable a was applied to the argument vector xs in the new frame
\* b made in frame c; role is "eval" or "direct"; the "args" event before it
\* holds the vector as the arguments were put in it), "apply" (apply built
\* the call form from its own argument vector xs), "qq" (quasiquote of template form yielded a in frame c),
\* "set" (set of name role wrote frame b; the first frame of the chain that
\* bound the name before was c; the value is a).
Event(kind, role, form, a, b, c, xs, depth) ==
    [kind |-> kind, role |-> role, form |-> form, a |-> a, b |-> b, c |-> c,
     xs |-> xs, depth |-> depth]

Log(s, e) == [s EXCEPT !.ev = Append(@, e)]

\* The stack depth of the innermost eval that is waiting.
EvalDepth(s) ==
    LET E == {i \in DOMAIN s.k : s.k[i].fn = "eval"}
    IN IF E = {} THEN 0 ELSE CHOOSE i \in E : \A j \in E : j <= i

\* arg_array[i], zero-based; the array starts zeroed.
Arg(a, i) == IF i + 1 <= Len(a) THEN a[i + 1] ELSE NULL

SetArg(a, i, v) ==
    Tab([k \in 1..(IF i + 1 > Len(a) THEN i + 1 ELSE Len(a)) |->
            IF k = i + 1 THEN v ELSE IF k <= Len(a) THEN a[k] ELSE NULL])

\* The first frame of the chain from env that binds key, or NULL.
RECURSIVE Binder(_, _, _)
Binder(s, env, key) ==
    IF env = NULL THEN NULL
    ELSE IF MapHas(s.envs[env].map, key) THEN env
    ELSE Binder(s, s.envs[env].prev, key)

RECURSIVE RootOf(_, _)
RootOf(s, env) == IF s.envs[env].prev = NULL THEN env ELSE RootOf(s, s.envs[env].prev)

\* user_defined_function_new / user_defined_macro_new: the captured frame
\* is a fresh child of env; rest_arg is the position of & in args.
user_defined_new(s, env, args, body, kind) ==
    LET obj  == s.nextid
        s1   == object_new(s)
        fenv == NewEnv(s1)
        s2   == env_new(s1, env)
        amp  == s2.nextid
        s3   == symbol_new(s2, "&")
    IN R(obj, [s3 EXCEPT !.heap[obj].type = kind,
                         !.heap[obj].is_user_defined = 1,
                         !.heap[obj].is_macro = IF kind = "MACRO" THEN 1 ELSE 0,
                         !.heap[obj].env = fenv,
                         !.heap[obj].rest_arg = find(s3, amp, args),
                         !.heap[obj].args = args,
                         !.heap[obj].body = body])

user_defined_function_new(s, env, args, body) == user_defined_new(s, env, args, body, "FUNCTION")

user_defined_macro_new(s, env, args, body) == user_defined_new(s, env, args, body, "MACRO")

(***************************************************************************)
(* Built-ins (lisp.c:3045-3080, 3390-3665).  A built-in returns a value,   *)
(* or it ends in a call (apply, macroexpand, import, read).                *)
(***************************************************************************)
\* apply: the loop that copies args[1..] but the last into a fresh list.
RECURSIVE apply_loop(_, _, _, _, _)
apply_loop(s, a, temp, prev, i) ==
    IF Arg(a, i + 1) # NULL
    THEN apply_loop(setcdr(cons_new(setcar(s, temp, Arg(a, i)), NULL, NULL), temp, s.nextid),
                    a, s.nextid, temp, i + 1)
    ELSE [st |-> s, prev |-> prev, i |-> i]

apply(s, env, a) ==
    LET function == Arg(a, 0)
        cons == s.nextid
        Made(s1, form) ==
            Call(Log(cons_new(s1, function, IF car(s1, cons) = NULL THEN cdr(s1, cons) ELSE cons),
                     Event("apply", "", form, function, NULL, env, a, Len(s.k))),
                 "eval_function_call", env, form, 0, "apply")
        Last(l) == IF is_type(l.st, Arg(a, l.i), "CONS")
                   THEN Made(setcdr(l.st, l.prev, Arg(a, l.i)), l.st.nextid)
                   ELSE Made(setcdr(cons_new(l.st, Arg(a, l.i), NULL), l.prev, l.st.nextid),
                             l.st.nextid + 1)
    IN Last(apply_loop(cons_new(s, NULL, NULL), a, cons, cons, 1))

macroexpand1(s, env, macro) == Call(s, "eval_function_call", env, macro, 0, "macroexpand-1")

macroexpand(s, env, macro) ==
    macroexpand1(Push(s, [Frame EXCEPT !.fn = "macroexpand", !.at = "expanded",
                                       !.env = env, !.obj = macro]),
                 env, macro)

\* macroexpand after macroexpand1 returned the value st.c.v.
macroexpand_expanded(s) ==
    LET f == Top(s)
        expanded == s.c.v
    IN IF is_type(s, expanded, "MACRO")
       THEN macroexpand1(SetTop(s, [f EXCEPT !.obj = expanded]), f.env, expanded)
       ELSE IF is_type(s, expanded, "CONS")
       THEN Call(SetTop(s, [f EXCEPT !.at = "expanded_car", !.res = expanded]),
                 "eval", f.env, car(s, expanded), 0, "expanded-head")
       ELSE Ret(Pop(s), expanded)

\* A macroexpand that stops after the first expansion of a list.
macroexpand_expanded_car_stop(s) == Ret(Pop(s), Top(s).res)

\* macroexpand after eval(env, car(expanded)) returned.
macroexpand_expanded_car(s) ==
    LET f == Top(s)
    IN IF is_type(s, s.c.v, "MACRO")
       THEN macroexpand1(SetTop(s, [f EXCEPT !.at = "expanded", !.obj = f.res]), f.env, f.res)
       ELSE Ret(Pop(s), f.res)

RECURSIVE list_args(_, _, _, _, _)
list_args(s, a, temp, prev, i) ==
    IF Arg(a, i) # NULL
    THEN list_args(setcdr(cons_new(setcar(s, temp, Arg(a, i)), NULL, NULL), temp, s.nextid),
                   a, s.nextid, temp, i + 1)
    ELSE [s EXCEPT !.heap[prev].cdr = NULL]

builtin_list(s, a) ==
    LET lst == s.nextid
    IN R(lst, list_args(cons_new(s, NULL, NULL), a, lst, lst, 0))

\* The inner loop of builtin_append: the elements of temp are copied to cur.
RECURSIVE append_copy(_, _, _, _)
append_copy(s, temp, cur, prev) ==
    IF temp # NULL
    THEN LET s1 == setcar(s, cur, car(s, temp))
             nx == s1.nextid
             s2 == setcdr(cons_new(s1, NULL, NULL), cur, nx)
         IN append_copy(s2, cdr(s2, temp), nx, cur)
    ELSE [st |-> s, cur |-> cur, prev |-> prev]

RECURSIVE append_args(_, _, _, _, _, _)
append_args(s, a, i, cur, prev, res) ==
    IF Arg(a, i) # NULL
    THEN IF ~is_type(s, Arg(a, i), "CONS")
         THEN LET s1 == string_new(s, type(s, Arg(a, i)))
              IN R(s1.nextid, error_new(s1, "type error: append expects each argument to be a list but argument "
                                                \o ToString(i) \o " is a " \o type(s, Arg(a, i)) \o "."))
         ELSE LET c == append_copy(s, Arg(a, i), cur, prev)
              IN append_args(c.st, a, i + 1, c.cur, c.prev, res)
    ELSE R(res, [s EXCEPT !.heap[prev].cdr = NULL])

builtin_append(s, a) ==
    LET res == s.nextid
    IN append_args(cons_new(s, NULL, NULL), a, 0, res, res, res)

\* The leading arguments of a NULL-terminated argument vector, from args[i].
RECURSIVE Lead(_, _)
Lead(a, i) == IF Arg(a, i) = NULL THEN <<>> ELSE <<Arg(a, i)>> \o Lead(a, i + 1)

HasNum(s, o) == is_type(s, o, "NUMBER") \/ is_type(s, o, "BOOL")

\* The largest int; arithmetic that leaves the range of int is undefined.
INT_MAX == 2147483647

Abs(x) == IF x >= 0 THEN x ELSE -x

\* C's integer division truncates toward zero.
CDiv(x, y) ==
    IF (x >= 0) = (y > 0) THEN Abs(x) \div Abs(y) ELSE -(Abs(x) \div Abs(y))

\* acc op n stays in the range of int (and n is not a zero divisor).
Fits(op, acc, n) ==
    CASE op = "+" -> IF n >= 0 THEN acc <= INT_MAX - n ELSE acc >= (-INT_MAX) - n
      [] op = "-" -> IF n >= 0 THEN acc >= (-INT_MAX) + n ELSE acc <= INT_MAX + n
      [] op = "*" -> n = 0 \/ Abs(acc) <= INT_MAX \div Abs(n)
      [] OTHER    -> n # 0

RECURSIVE Fold(_, _, _, _)
Fold(op, acc, ns, i) ==
    IF i > Len(ns) THEN [ok |-> TRUE, v |-> acc]
    ELSE IF ~Fits(op, acc, ns[i]) THEN [ok |-> FALSE, v |-> 0]
    ELSE Fold(op,
              CASE op = "+" -> acc + ns[i]
                [] op = "-" -> acc - ns[i]
                [] op = "*" -> acc * ns[i]
                [] OTHER    -> CDiv(acc, ns[i]),
              ns, i + 1)

\* builtin_plus / minus / multiply / divide over the leading arguments.
arith(s, a, op) ==
    LET xs == Lead(a, 0)
        ns == [k \in DOMAIN xs |-> s.heap[xs[k]].num]
        f  == IF op = "+" THEN Fold(op, 0, ns, 1) ELSE Fold(op, ns[1], ns, 2)
    IN IF op # "+" /\ Arg(a, 0) = NULL THEN R(NULL, Fault(s, "segv"))
       ELSE IF \E k \in DOMAIN xs : ~HasNum(s, xs[k])
       THEN R(NULL, Fault(s, "data.num of a non-number"))
       ELSE IF ~f.ok
       THEN R(NULL, Fault(s, IF op = "/" THEN "sigfpe" ELSE "signed overflow"))
       ELSE R(s.nextid, number_new(s, f.v))

is_greater_than(s, a, b) ==
    IF IsAlloc(s, a) /\ IsAlloc(s, b) /\ s.heap[a].type = s.heap[b].type
                     /\ s.heap[a].type = "NUMBER"
    THEN s.heap[a].num > s.heap[b].num
    ELSE FALSE

is_less_than(s, a, b) ==
    IF IsAlloc(s, a) /\ IsAlloc(s, b) /\ s.heap[a].type = s.heap[b].type
                     /\ s.heap[a].type = "NUMBER"
    THEN s.heap[a].num < s.heap[b].num
    ELSE FALSE

\* fprint reads obj and writes its text to fd.
fprint(s, fd, obj) ==
    Touch([s EXCEPT !.out = Append(@, [fd |-> fd, obj |-> obj,
                                       type |-> IF IsAlloc(s, obj) THEN s.heap[obj].type
                                                ELSE "nil"])],
          obj)

(***************************************************************************)
(* The texts the interpreter is given: the contents of files and the       *)
(* strings handed to read, each as the token stream the lexer makes of it. *)
(***************************************************************************)
\* lib/core.lisp of the repository.
core_lisp ==
    <<LP, Sym("define"), Sym("defmacro"), LP, Sym("macro"), LP, Sym("name"),
      Sym("args"), Sym("body"), RP, BT, LP, Sym("define"), CM, Sym("name"),
      LP, Sym("macro"), CM, Sym("args"), CM, Sym("body"), RP, RP, RP, RP, LP,
      Sym("defmacro"), Sym("defn"), LP, Sym("name"), Sym("args"),
      Sym("body"), RP, BT, LP, Sym("define"), CM, Sym("name"), LP,
      Sym("lambda"), CM, Sym("args"), CM, Sym("body"), RP, RP, RP, LP,
      Sym("defmacro"), Sym("deftest"), LP, Sym("name"), Sym("body"), RP, BT,
      LP, Sym("let"), LP, Sym("err"), Sym("nil"), RP, LP, Sym("do"), LP,
      Sym("defn"), CM, Sym("name"), LP, RP, CM, Sym("body"), RP, LP, CM,
      Sym("name"), RP, LP, Sym("="), Sym("err"), Sym("nil"), RP, RP, RP, RP,
      LP, Sym("defmacro"), Sym("cond"), LP, Sym("&"), RP, LP, Sym("do"), LP,
      Sym("if"), LP, Sym(">"), LP, Sym("len"), Sym("&"), RP, Num(2), RP, BT,
      LP, Sym("if"), CM, LP, Sym("car"), Sym("&"), RP, CM, LP, Sym("car"),
      LP, Sym("cdr"), Sym("&"), RP, RP, CM, LP, Sym("apply"), Sym("cond"),
      LP, Sym("cdr"), LP, Sym("cdr"), Sym("&"), RP, RP, RP, RP, BT, LP,
      Sym("if"), CM, LP, Sym("car"), Sym("&"), RP, CM, LP, Sym("car"), LP,
      Sym("cdr"), Sym("&"), RP, RP, RP, RP, RP, RP, LP, Sym("defmacro"),
      Sym("assert"), LP, Sym("condition"), RP, BT, LP, Sym("do"), LP,
      Sym("if"), CM, Sym("condition"), Sym("true"), LP, Sym("set"),
      Sym("err"), LP, Sym("error"), Str("assertion failed"), RP, RP, RP, RP,
      RP, LP, Sym("defn"), Sym("recursive-dotimes"), LP, Sym("body"),
      Sym("times"), RP, LP, Sym("do"), LP, Sym("eval"), Sym("body"), RP, LP,
      Sym("if"), LP, Sym("="), Sym("times"), Num(1), RP, Sym("nil"), LP,
      Sym("recursive-dotimes"), Sym("body"), LP, Sym("-"), Sym("times"),
      Num(1), RP, RP, RP, RP, RP, LP, Sym("defmacro"), Sym("dotimes"), LP,
      Sym("body"), Sym("times"), RP, BT, LP, Sym("recursive-dotimes"), LP,
      Sym("quote"), CM, Sym("body"), RP, CM, Sym("times"), RP, RP, LP,
      Sym("defn"), Sym("recursive-dowhile"), LP, Sym("condition"),
      Sym("body"), RP, LP, Sym("if"), LP, Sym("="), LP, Sym("eval"),
      Sym("condition"), RP, Sym("true"), RP, LP, Sym("do"), LP, Sym("eval"),
      Sym("body"), RP, LP, Sym("recursive-dowhile"), Sym("condition"),
      Sym("body"), RP, RP, RP, RP, LP, Sym("defmacro"), Sym("dowhile"), LP,
      Sym("condition"), Sym("body"), RP, BT, LP, Sym("recursive-dowhile"),
      LP, Sym("quote"), CM, Sym("condition"), RP, LP, Sym("quote"), CM,
      Sym("body"), RP, RP, RP, LP, Sym("defn"), Sym("recursive-for"), LP,
      Sym("iterator"), Sym("iterable"), Sym("body"), RP, LP, Sym("do"), LP,
      Sym("if"), LP, Sym(">"), LP, Sym("len"), Sym("iterable"), RP, Num(0),
      RP, LP, Sym("do"), LP, Sym("eval"), LP, Sym("list"), QT, Sym("set"),
      Sym("iterator"), LP, Sym("car"), Sym("iterable"), RP, RP, RP, LP,
      Sym("eval"), Sym("body"), RP, LP, Sym("recursive-for"),
      Sym("iterator"), LP, Sym("cdr"), Sym("iterable"), RP, Sym("body"), RP,
      RP, RP, RP, RP, LP, Sym("defmacro"), Sym("for"), LP, Sym("&"), RP, BT,
      LP, Sym("recursive-for"), LP, Sym("quote"), CM, LP, Sym("car"),
      Sym("&"), RP, RP, CM, LP, Sym("car"), LP, Sym("cdr"), LP, Sym("cdr"),
      Sym("&"), RP, RP, RP, LP, Sym("quote"), CM, LP, Sym("car"), LP,
      Sym("cdr"), LP, Sym("cdr"), LP, Sym("cdr"), Sym("&"), RP, RP, RP, RP,
      RP, RP, RP, WS>>


\* A file of the user's: (define z 1)
a_lisp == <<LP, Sym("define"), Sym("z"), Num(1), RP, WS>>

Texts == ("core.lisp" :> core_lisp) @@ ("a.lisp" :> a_lisp)

\* What the lexer makes of a text: the texts of the model are the files'
\* contents and the strings handed to read.
Lex(s, text) == s.lexed[text]

builtin_import(s, env, a) ==
    LET import_path == Arg(a, 0)
    IN IF ~is_type(s, import_path, "STRING")
       THEN Ret(error_new(s, "import error: import requires 1 parameter which must be a string."),
                s.nextid)
       ELSE IF s.heap[import_path].str \notin DOMAIN s.files
       THEN Ret(error_new(s, "import error: '" \o s.heap[import_path].str \o "' file not found"), s.nextid)
       ELSE CallRead(s, "exec", env, Lex(s, s.files[s.heap[import_path].str]))

open(s, a) ==
    LET file_to_open == Arg(a, 0)
    IN IF ~is_type(s, file_to_open, "STRING")
       THEN R(s.nextid, error_new(s, "file error: open requires 1 parameter which must be a string."))
       ELSE IF s.heap[file_to_open].str \notin DOMAIN s.files
       THEN R(s.nextid, error_new(s, "file error: '" \o s.heap[file_to_open].str \o "' file not found"))
       ELSE R(s.nextid, string_new(s, s.files[s.heap[file_to_open].str]))

builtin_read(s, env, a) ==
    IF Arg(a, 0) = NULL THEN Fault(s, "segv")
    ELSE IF s.heap[Arg(a, 0)].str \notin DOMAIN s.lexed
    THEN Fault(s, "text outside the model")
    ELSE CallRead(Push(s, [Frame EXCEPT !.fn = "builtin_read", !.at = "obj", !.env = env]),
                  "parse", NULL, Lex(s, s.heap[Arg(a, 0)].str))

\* builtin_read after parse returned the form st.c.v.
builtin_read_obj(s) == Call(Pop(s), "eval", Top(s).env, s.c.v, 0, "read")

\* The built-in name called with the argument vector a in the frame env.
builtin(s, env, name, a) ==
    LET Return(r) == Ret(r.st, r.v)
    IN CASE name = "apply"  -> apply(s, env, a)
         [] name = "car"    -> Ret(s, car(s, Arg(a, 0)))
         [] name = "setcar" -> Ret(setcar(s, Arg(a, 0), Arg(a, 1)), NULL)
         [] name = "cdr"    -> Ret(s, cdr(s, Arg(a, 0)))
         [] name = "setcdr" -> Ret(setcdr(s, Arg(a, 0), Arg(a, 1)), NULL)
         [] name = "type"   -> Ret(string_new(s, type(s, Arg(a, 0))), s.nextid)
         [] name = "cons"   -> Ret(cons_new(s, Arg(a, 0), Arg(a, 1)), s.nextid)
         [] name = "print"  -> Ret(fprint(s, "stdout", Arg(a, 0)), NULL)
         [] name = "import" -> builtin_import(s, env, a)
         [] name = "list"   -> Return(builtin_list(s, a))
         [] name = "read"   -> builtin_read(s, env, a)
         [] name = "append" -> Return(builtin_append(s, a))
         [] name = "error"  -> Ret(error_new(s, IF Arg(a, 0) # NULL
                                                THEN s.heap[Arg(a, 0)].str ELSE "error"),
                                   s.nextid)
         [] name = "copy"   -> Return(copy(s, Arg(a, 0)))
         [] name = "len"    -> Ret(number_new(s, length(s, Arg(a, 0))), s.nextid)
         [] name = "find"   -> IF find(s, Arg(a, 0), Arg(a, 1)) > -1
                               THEN Ret(number_new(s, find(s, Arg(a, 0), Arg(a, 1))), s.nextid)
                               ELSE Ret(s, NULL)
         [] name = "last"   -> Ret(s, last(s, Arg(a, 0)))
         [] name = "open"   -> Return(open(s, a))
         [] name = "macroexpand"   -> macroexpand(s, env, Arg(a, 0))
         [] name = "macroexpand-1" -> macroexpand1(s, env, Arg(a, 0))
         [] name = "gc-mark"  -> Ret(gc_mark(s), NULL)
         [] name = "gc-sweep" -> Ret(gc_sweep(s), NULL)
         [] name = "="  -> Ret(bool_new(s, is_equal(s, Arg(a, 0), Arg(a, 1))), s.nextid)
         [] name = ">"  -> Ret(bool_new(s, is_greater_than(s, Arg(a, 0), Arg(a, 1))), s.nextid)
         [] name = "<"  -> Ret(bool_new(s, is_less_than(s, Arg(a, 0), Arg(a, 1))), s.nextid)
         [] name \in {"+", "-", "*", "/"} -> Return(arith(s, a, name))
         [] OTHER -> Fault(s, "no such built-in")

(***************************************************************************)
(* The evaluator (lisp.c:2703-3043, 3089-3095, 3230-3259).  For a C        *)
(* function f that calls eval, f(s, ...) runs f to its first call and      *)
(* f_at(s) resumes it where it waits (at), the callee's value in st.c.v.   *)
(***************************************************************************)
\* name->data.str is read: a NULL name is a null dereference, an object
\* without a string reads a wild pointer.
NameFault(s, name) ==
    IF name = NULL \/ ~IsAlloc(s, name) THEN Fault(s, "segv")
    ELSE IF s.heap[name].type \notin {"SYMBOL", "STRING", "ERROR"}
    THEN Fault(s, "data.str of an object without a string")
    ELSE Touch(s, name)

\* The loop of function_wrapper: parameter i is bound to args[i], up to the
\* first parameter that is nil.
RECURSIVE bind_loop(_, _, _, _, _)
bind_loop(s, env, temp, args, i) ==
    IF car(s, temp) # NULL
    THEN bind_loop(env_put(NameFault(s, car(s, temp)), env, NameOf(s, car(s, temp)), Arg(args, i)),
                   env, cdr(s, temp), args, i + 1)
    ELSE s

function_wrapper(s, env, function, args) ==
    LET s1 == bind_loop(s, env, s.heap[function].args, args, 0)
    IN Call(s1, "eval", env, s1.heap[function].body, 0, "body")

\* The capacity of arg_array.
MAX_FUNC_ARGS == 64

\* The loop that moves arguments rest_arg.. of arg_array into the rest list.
RECURSIVE rest_loop(_, _, _, _, _, _)
rest_loop(s, arr, temp, prev, i, arg_count) ==
    IF i >= 0 /\ i < arg_count
    THEN rest_loop(setcdr(cons_new(setcar(s, temp, Arg(arr, i)), NULL, NULL), temp, s.nextid),
                   SetArg(arr, i, NULL), s.nextid, temp, i + 1, arg_count)
    ELSE [st |-> setcdr(s, prev, NULL), arr |-> arr]

\* eval_function_call from the rest-parameter block on: arg_array is full.
\* b holds the state and arg_array after the block.
eval_function_call_call(s) ==
    LET f         == Top(s)
        function  == f.function
        rest_arg  == s.heap[function].rest_arg
        rest      == s.nextid
        how       == IF f.flag = 1 THEN "eval" ELSE "direct"
        Apply(s2, frame, arr) ==
            IF ~(is_type(s, function, "FUNCTION") \/ is_type(s, function, "MACRO"))
            THEN Ret(s2, NULL)
            ELSE IF s.heap[function].is_user_defined = 0
            THEN builtin(s2, frame, s.heap[function].fn, arr)
            ELSE function_wrapper(s2, frame, function, arr)
        Frame_(b, frame) ==
            Apply(Log(Log(SetTop(env_new(b.st, f.env),
                                 [f EXCEPT !.at = "result", !.arr = b.arr, !.local = frame]),
                          Event("args", how, f.obj, function, NULL, f.env, f.arr, Len(s.k))),
                      Event("call", how, f.obj, function, frame, f.env, b.arr, Len(s.k))),
                  frame, b.arr)
        Block(l) == Frame_([st |-> l.st, arr |-> SetArg(l.arr, rest_arg, rest)], NewEnv(l.st))
    IN IF f.n > MAX_FUNC_ARGS \/ rest_arg >= MAX_FUNC_ARGS
       THEN Fault(s, "arg_array overflow")
       ELSE IF rest_arg # -1
       THEN Block(rest_loop(cons_new(s, NULL, NULL), f.arr, rest, rest, rest_arg, f.n))
       ELSE Frame_([st |-> s, arr |-> f.arr], NewEnv(s))

\* The arguments of a macro call are put in arg_array as they are.
RECURSIVE macro_args(_, _, _, _, _)
macro_args(s, temp, i, arg_count, arr) ==
    IF car(s, temp) # NULL \/ i < arg_count
    THEN macro_args(s, cdr(s, temp), i + 1, arg_count, Append(arr, car(s, temp)))
    ELSE arr

\* The head of the loop that fills arg_array.
eval_function_call_args(s) ==
    LET f     == Top(s)
        s0    == Touch(Touch(s, f.temp), f.function)
        macro == s.heap[f.function].is_macro = 1
    IN IF ~macro /\ (car(s0, f.temp) # NULL \/ f.i < f.n)
       THEN Call(SetTop(s0, [f EXCEPT !.at = "arg"]), "eval", f.env, car(s0, f.temp), 0,
                 "argument")
       ELSE eval_function_call_call(
                IF macro
                THEN SetTop(s0, [f EXCEPT !.arr = macro_args(s0, f.temp, f.i, f.n, f.arr)])
                ELSE s0)

eval_function_call(s, env, obj, expand_macro) ==
    Call(Push(s, [Frame EXCEPT !.fn = "eval_function_call", !.at = "function", !.env = env,
                               !.obj = obj, !.flag = expand_macro]),
         "eval", env, car(s, obj), 0, "head")

\* function = eval(env, car(obj)) returned, or arg = eval(env, car(temp))
\* did: the loop over the arguments goes on.
eval_function_call_function(s) ==
    LET f        == Top(s)
        function == s.c.v
        s0       == Touch(s, IF f.at = "function" THEN f.obj ELSE f.temp)
        name     == car(s0, f.obj)
    IN IF f.at = "function" /\ function = NULL
       THEN IF name = NULL THEN Fault(s0, "segv")
            ELSE IF ~(is_type(s0, name, "SYMBOL") \/ is_type(s0, name, "STRING")
                      \/ is_type(s0, name, "ERROR"))
            THEN Fault(s0, "data.str of an object that holds no string")
            ELSE Ret(error_new(Pop(s0), "name error: function '" \o s0.heap[name].str
                                        \o "' is undefined"), s0.nextid)
       ELSE IF f.at = "arg" /\ f.i >= MAX_FUNC_ARGS THEN Fault(s0, "arg_array overflow")
       ELSE eval_function_call_args(
                SetTop(IF f.at = "function"
                          /\ ~(is_type(s0, function, "FUNCTION") \/ is_type(s0, function, "MACRO"))
                       THEN [s0 EXCEPT !.wild = TRUE]
                       ELSE s0,
                       IF f.at = "function"
                           THEN [f EXCEPT !.function = function, !.temp = cdr(s0, f.obj),
                                          !.n = length(s0, cdr(s0, f.obj)), !.i = 0]
                           ELSE [f EXCEPT !.arr = Append(@, s.c.v), !.i = @ + 1,
                                          !.temp = cdr(s0, f.temp)]))

\* An eval_function_call that never evaluates what a macro returned.
eval_function_call_result_asis(s) == Ret(Pop(Touch(s, Top(s).function)), s.c.v)

\* The callee returned result.
eval_function_call_result(s) ==
    LET f  == Top(s)
        s0 == Touch(s, f.function)
    IN IF f.flag = 1 /\ s0.heap[f.function].is_macro = 1
       THEN Call(SetTop(s0, [f EXCEPT !.at = "expanded", !.res = s.c.v, !.local = NULL]),
                 "eval", f.env, s.c.v, 0, "expansion")
       ELSE Ret(Pop(s0), s.c.v)

eval_eval_special_form(s, env, obj) ==
    Call(Push(s, [Frame EXCEPT !.fn = "eval_eval_special_form", !.at = "arg", !.env = env,
                               !.obj = obj]),
         "eval", env, car(s, cdr(s, obj)), 0, "eval-arg")

eval_eval_special_form_arg(s) ==
    Call(SetTop(s, [Top(s) EXCEPT !.at = "tail"]), "eval", Top(s).env, s.c.v, 0, "eval-result")

eval_quote_special_form(s, env, obj) ==
    IF cdr(s, cdr(s, obj)) # NULL
    THEN Ret(error_new(s, "quote error: only 1 argument expected."), s.nextid)
    ELSE Ret(s, car(s, cdr(s, obj)))

\* eval_unquote's loop over the cells of obj: each car is replaced in place.
eval_unquote_loop(s) ==
    LET f == Top(s)
    IN IF is_type(s, f.temp, "CONS")
       THEN Call(SetTop(s, [f EXCEPT !.at = "elem"]), "eval_unquote", f.env, car(s, f.temp), 0, "")
       ELSE Ret(Pop(s), f.obj)

eval_unquote(s, env, obj) ==
    IF is_unquote(s, obj)
    THEN Call(Push(s, [Frame EXCEPT !.fn = "eval_unquote", !.at = "tail", !.env = env,
                                    !.obj = obj]),
              "eval", env, car(s, cdr(s, obj)), 0, "unquote")
    ELSE IF is_type(s, obj, "CONS")
    THEN eval_unquote_loop(Push(s, [Frame EXCEPT !.fn = "eval_unquote", !.env = env,
                                                 !.obj = obj, !.temp = obj]))
    ELSE Ret(s, obj)

eval_unquote_elem(s) ==
    LET f  == Top(s)
        s1 == setcar(Touch(s, f.temp), f.temp, s.c.v)
    IN eval_unquote_loop(SetTop(s1, [f EXCEPT !.temp = cdr(s1, f.temp)]))

\* The loop of eval_quasiquote_special_form over the copy of the template:
\* temp is the cell being read, cur the cell being filled, prev the last
\* one filled, res the first.
eval_quasiquote_special_form_loop(s) ==
    LET f == Top(s)
    IN IF f.temp # NULL
       THEN Call(SetTop(s, [f EXCEPT !.at = "item"]), "eval_unquote", f.env, car(s, f.temp), 0, "")
       ELSE LET app  == s.nextid
                form == s.nextid + 1
            IN Call(SetTop(cons_new(symbol_new([s EXCEPT !.heap[f.prev].cdr = NULL], "append"),
                                    app, f.res),
                           [f EXCEPT !.at = "append", !.cur = form]),
                    "eval", f.env, form, 0, "qq-append")

\* A quasiquote that fills in the template itself, not a copy of it.
eval_quasiquote_special_form_inplace(s, env, obj) ==
    eval_quasiquote_special_form_loop(
        Push(cons_new(s, NULL, NULL),
             [Frame EXCEPT !.fn = "eval_quasiquote_special_form", !.env = env,
                           !.obj = obj, !.temp = car(s, cdr(s, obj)), !.cur = s.nextid,
                           !.prev = s.nextid, !.res = s.nextid]))

eval_quasiquote_special_form(s, env, obj) ==
    LET Copied(s1, temp) ==
            eval_quasiquote_special_form_loop(
                Push(cons_new(s1, NULL, NULL),
                     [Frame EXCEPT !.fn = "eval_quasiquote_special_form", !.env = env,
                                   !.obj = obj, !.temp = temp, !.cur = s1.nextid,
                                   !.prev = s1.nextid, !.res = s1.nextid]))
    IN Copied(copy(s, car(s, cdr(s, obj))).st, s.nextid)

\* item = eval_unquote(env, car(temp)) returned: cur becomes
\* ((list (quote item)) . fresh cell).
eval_quasiquote_special_form_item(s) ==
    LET f    == Top(s)
        q    == s.nextid
        qt   == q + 1
        item == q + 2
        l    == q + 3
        lt   == q + 4
        lc   == q + 5
        nx   == q + 6
        Next_(s7) == eval_quasiquote_special_form_loop(
                         SetTop(s7, [f EXCEPT !.prev = f.cur, !.cur = nx,
                                              !.temp = cdr(s7, f.temp)]))
    IN Next_(Touch(setcdr(cons_new(setcar(cons_new(cons_new(symbol_new(cons_new(cons_new(
                 symbol_new(s, "quote"), s.c.v, NULL), q, qt), "list"), item, NULL), l, lt),
                 f.cur, lc), NULL, NULL), f.cur, nx), f.temp))

\* eval(env, (append ...)) returned.
eval_quasiquote_special_form_append(s) ==
    LET f == Top(s)
    IN Ret(Log(Pop(s), Event("qq", "", car(s, cdr(s, f.obj)), s.c.v, NULL, f.env, <<>>,
                             Len(s.k))),
           s.c.v)

eval_define_special_form(s, env, obj) ==
    Call(Push(s, [Frame EXCEPT !.fn = "eval_define_special_form", !.at = "value", !.env = env,
                               !.obj = obj, !.temp = car(s, cdr(s, obj))]),
         "eval", env, car(s, cdr(s, cdr(s, obj))), 0, "define-value")

\* A define that binds the name in the frame it is evaluated in.
eval_define_special_form_value_local(s) ==
    LET f == Top(s)
    IN Ret(Log(env_put(Pop(s), f.env, NameOf(s, f.temp), s.c.v),
               Event("define", NameOf(s, f.temp), f.obj, s.c.v, f.env, f.env, <<>>, Len(s.k))),
           NULL)

eval_define_special_form_value(s) ==
    LET f  == Top(s)
        s0 == NameFault(s, f.temp)
    IN IF s0.fault # "" THEN s0
       ELSE Ret(Log(env_put(Pop(s0), RootOf(s0, f.env), NameOf(s0, f.temp), s.c.v),
                    Event("define", NameOf(s0, f.temp), f.obj, s.c.v, RootOf(s0, f.env), f.env,
                          <<>>, Len(s.k))),
                NULL)

\* A let that evaluates its values in its own frame, as let* does.
eval_let_special_form_loop_seq(s) ==
    LET f == Top(s)
    IN IF f.temp # NULL
       THEN Call(SetTop(s, [f EXCEPT !.at = "value", !.cur = car(s, f.temp)]),
                 "eval", f.local, car(s, cdr(s, f.temp)), 0, "let-value")
       ELSE Call(SetTop(s, [f EXCEPT !.at = "tail"]), "eval", f.local, f.res, 0, "let-body")

\* The loop of eval_let_special_form over the name-value pairs at temp.
eval_let_special_form_loop(s) ==
    LET f == Top(s)
    IN IF f.temp # NULL
       THEN Call(SetTop(s, [f EXCEPT !.at = "value", !.cur = car(s, f.temp)]),
                 "eval", f.env, car(s, cdr(s, f.temp)), 0, "let-value")
       ELSE Call(SetTop(s, [f EXCEPT !.at = "tail"]), "eval", f.local, f.res, 0, "let-body")

eval_let_special_form(s, env, obj) ==
    LET local_env == NewEnv(s)
    IN eval_let_special_form_loop(
           Push(env_new(s, env),
                [Frame EXCEPT !.fn = "eval_let_special_form", !.env = env, !.obj = obj,
                              !.local = local_env, !.temp = car(s, cdr(s, obj)),
                              !.res = car(s, cdr(s, cdr(s, obj)))]))

eval_let_special_form_value(s) ==
    LET f  == Top(s)
        s0 == Touch(NameFault(s, f.cur), f.temp)
    IN IF s0.fault # "" THEN s0
       ELSE eval_let_special_form_loop(
                SetTop(env_put(s0, f.local, NameOf(s0, f.cur), s.c.v),
                       [f EXCEPT !.temp = cdr(s0, cdr(s0, f.temp)), !.cur = NULL]))

\* The loop of the (set (n1 v1) (n2 v2) ...) variant over the pairs at temp.
eval_set_special_form_loop(s) ==
    LET f == Top(s)
    IN IF car(s, f.temp) # NULL
       THEN Call(SetTop(s, [f EXCEPT !.at = "value", !.cur = car(s, car(s, f.temp))]),
                 "eval", f.env, car(s, cdr(s, car(s, f.temp))), 0, "set-value")
       ELSE Ret(Pop(s), NULL)

eval_set_special_form(s, env, obj) ==
    IF is_type(s, car(s, cdr(s, obj)), "CONS")
    THEN eval_set_special_form_loop(
             Push(s, [Frame EXCEPT !.fn = "eval_set_special_form", !.env = env, !.obj = obj,
                                   !.temp = cdr(s, obj), !.flag = 1]))
    ELSE Call(Push(s, [Frame EXCEPT !.fn = "eval_set_special_form", !.at = "value",
                                    !.env = env, !.obj = obj, !.cur = car(s, cdr(s, obj))]),
              "eval", env, car(s, cdr(s, cdr(s, obj))), 0, "set-value")

\* value = eval(...) returned: the name is bound in the current frame env.
eval_set_special_form_value(s) ==
    LET f  == Top(s)
        s0 == NameFault(s, f.cur)
        s1 == Log(env_put(s0, f.env, NameOf(s0, f.cur), s.c.v),
                  Event("set", NameOf(s0, f.cur), f.obj, s.c.v, f.env,
                        Binder(s0, f.env, NameOf(s0, f.cur)), <<>>, Len(s.k)))
    IN IF s0.fault # "" THEN s0
       ELSE IF f.flag = 1
       THEN eval_set_special_form_loop(
                SetTop(Touch(s1, f.temp), [f EXCEPT !.temp = cdr(s1, f.temp), !.cur = NULL]))
       ELSE Ret(Pop(s1), NULL)

eval_if_special_form(s, env, obj) ==
    Call(Push(s, [Frame EXCEPT !.fn = "eval_if_special_form", !.at = "result", !.env = env,
                               !.obj = obj,
                               !.cur = car(s, cdr(s, cdr(s, obj))),
                               !.res = car(s, cdr(s, cdr(s, cdr(s, obj))))]),
         "eval", env, car(s, cdr(s, obj)), 0, "if-cond")

\* result = eval(env, cond) returned: cur is true_branch, res else_branch.
eval_if_special_form_result(s) ==
    LET f == Top(s)
    IN Call(SetTop(s, [f EXCEPT !.at = "tail"]), "eval", f.env,
            IF is_truthy(s, s.c.v) THEN f.cur ELSE f.res, 0, "if-branch")

eval_lambda_special_form(s, env, obj) ==
    LET r == user_defined_function_new(s, env, car(s, cdr(s, obj)), car(s, cdr(s, cdr(s, obj))))
    IN Ret(r.st, r.v)

eval_macro_special_form(s, env, obj) ==
    LET r == user_defined_macro_new(s, env, car(s, cdr(s, obj)), car(s, cdr(s, cdr(s, obj))))
    IN Ret(r.st, r.v)

\* A do whose loop forgets res: it returns nil whatever its elements yield.
eval_do_special_form_loop_nil(s) ==
    LET f == Top(s)
    IN IF car(s, f.temp) # NULL
       THEN Call(SetTop(s, [f EXCEPT !.at = "res"]), "eval", f.env, car(s, f.temp), 0,
                 "do-element")
       ELSE Ret(Pop(s), NULL)

\* The loop of eval_do_special_form: it ends at the first element that is
\* nil, res holding the value of the last element evaluated.
eval_do_special_form_loop(s) ==
    LET f == Top(s)
    IN IF car(s, f.temp) # NULL
       THEN Call(SetTop(s, [f EXCEPT !.at = "res"]), "eval", f.env, car(s, f.temp), 0,
                 "do-element")
       ELSE Ret(Pop(s), f.res)

eval_do_special_form(s, env, obj) ==
    eval_do_special_form_loop(
        Push(s, [Frame EXCEPT !.fn = "eval_do_special_form", !.env = env, !.obj = obj,
                              !.temp = cdr(s, obj)]))

eval_do_special_form_res(s) ==
    LET f  == Top(s)
        s0 == Touch(s, f.temp)
    IN eval_do_special_form_loop(
           SetTop(s0, [f EXCEPT !.res = s.c.v, !.temp = cdr(s0, f.temp)]))

eval_special_form(s, env, obj) ==
    LET name == s.heap[car(s, obj)].str
    IN CASE name = "quote"      -> eval_quote_special_form(s, env, obj)
         [] name = "quasiquote" -> eval_quasiquote_special_form(s, env, obj)
         [] name = "eval"       -> eval_eval_special_form(s, env, obj)
         [] name = "define"     -> eval_define_special_form(s, env, obj)
         [] name = "lambda"     -> eval_lambda_special_form(s, env, obj)
         [] name = "macro"      -> eval_macro_special_form(s, env, obj)
         [] name = "do"         -> eval_do_special_form(s, env, obj)
         [] name = "let"        -> eval_let_special_form(s, env, obj)
         [] name = "set"        -> eval_set_special_form(s, env, obj)
         [] name = "if"         -> eval_if_special_form(s, env, obj)
         [] OTHER               -> Ret(s, NULL)

eval_list(s, env, obj) ==
    IF is_special_form(s, obj)
    THEN eval_special_form(s, env, obj)
    ELSE eval_function_call(s, env, obj, 1)

\* eval: a list form gets an activation record of eval's own, which holds
\* the form while its value is computed.
eval(s, env, obj, role) ==
    IF obj = NULL
    THEN Ret(Log(s, Event("ret", role, NULL, NULL, EvalDepth(s), env, <<>>, Len(s.k) + 1)), NULL)
    ELSE IF ~IsAlloc(s, obj) THEN Fault(s, "dangling")
    ELSE LET s0 == Touch(s, obj)
             o  == s.heap[obj]
             v  == IF o.type = "SYMBOL" /\ o.str \notin Keywords
                   THEN env_get(s0, env, o.str).value
                   ELSE obj
         IN IF o.type = "CONS"
            THEN eval_list(Push(s0, [Frame EXCEPT !.fn = "eval", !.env = env, !.obj = obj,
                                                  !.role = role, !.n = EvalDepth(s)]),
                           env, obj)
            ELSE Ret(Log(s0, Event("ret", role, obj, v, EvalDepth(s), env, <<>>, Len(s.k) + 1)), v)

\* eval_list returned to eval.
eval_res(s) ==
    LET f == Top(s)
    IN Ret(Log(Pop(s), Event("ret", f.role, f.obj, s.c.v, f.n, f.env, <<>>, Len(s.k))), s.c.v)

(***************************************************************************)
(* The reader (lisp.c:3102-3228): recursive descent over the tokens.       *)
(***************************************************************************)
\* quote, unquote, quasiquote: the token is consumed and (name expr) built.
quote(s, toks, name) ==
    CallRead(Push(s, [Frame EXCEPT !.fn = "quote", !.at = "expr", !.role = name]),
             "expr", NULL, next(toks))

quote_expr(s) ==
    LET f     == Top(s)
        sym   == s.nextid
        s1    == symbol_new(s, f.role)
        inner == s1.nextid
        s2    == cons_new(s1, s.c.v, NULL)
        outer == s2.nextid
    IN RetRead(Pop(cons_new(s2, sym, inner)), outer, s.c.toks)

\* The loop of list: temp is the cell being filled, prev the last one filled.
list_loop(s) ==
    LET f  == Top(s)
        s1 == [s EXCEPT !.heap[f.prev].cdr = NULL]
    IN IF is_expr(peek(f.toks))
       THEN CallRead(SetTop(s, [f EXCEPT !.at = "expr"]), "expr", NULL, f.toks)
       ELSE IF peek(f.toks).type # "T_RPAREN"
       THEN RetRead(error_new(Pop(s1), "syntax error: missing expected ')'"), s1.nextid,
                    next(f.toks))
       ELSE RetRead(Pop(s1), f.obj, next(f.toks))

list(s, toks) ==
    LET t1  == next(toks)
        obj == s.nextid
    IN IF peek(t1).type = "T_RPAREN"
       THEN RetRead(s, NULL, next(t1))
       ELSE list_loop(Push(cons_new(s, NULL, NULL),
                           [Frame EXCEPT !.fn = "list", !.obj = obj, !.temp = obj,
                                         !.prev = obj, !.toks = t1]))

\* expr(str) returned to list.
list_expr(s) ==
    LET f  == Top(s)
        s1 == setcar(s, f.temp, s.c.v)
        nx == s1.nextid
        s2 == setcdr(cons_new(s1, NULL, NULL), f.temp, nx)
    IN list_loop(SetTop(s2, [f EXCEPT !.prev = f.temp, !.temp = nx, !.toks = s.c.toks]))

expr(s, toks) ==
    LET token == peek(toks)
        a     == atom(s, toks)
    IN CASE token.type = "T_QUOTE"    -> quote(s, toks, "quote")
         [] token.type = "T_BACKTICK" -> quote(s, toks, "quasiquote")
         [] token.type = "T_COMMA"    -> quote(s, toks, "unquote")
         [] token.type = "T_LPAREN"   -> list(s, toks)
         [] OTHER                     -> RetRead(a.st, a.v, a.toks)

parse(s, toks) == expr(s, toks)

(***************************************************************************)
(* exec (lisp.c:3261-3293): read a form, evaluate it, print the result,    *)
(* collect when enough was allocated; an Error result ends the loop.       *)
(***************************************************************************)
gc_due(s) == s.objects_since_last_collection * 4 >= s.objects_at_last_collection * 5

\* The head of exec's loop.  The logs are those of one form of the
\* outermost exec: they start empty with it.
exec_loop(s) ==
    LET f  == Top(s)
        s0 == IF Len(s.k) = 1
              THEN [s EXCEPT !.ev = <<>>, !.gclog = <<>>, !.out = <<>>,
                             !.inflight_freed = {}, !.root_freed = {}, !.stale = {},
                             !.skipped = <<>>, !.wild = FALSE]
              ELSE s
    IN IF f.toks = <<>>
       THEN Ret(Pop(s), NULL)
       ELSE CallRead(SetTop(s0, [f EXCEPT !.at = "obj"]), "parse", NULL, f.toks)

exec(s, env, toks) ==
    exec_loop(Push(s, [Frame EXCEPT !.fn = "exec", !.env = env, !.toks = toks]))

\* obj = parse(&str) returned.
exec_obj(s) ==
    LET f == Top(s)
    IN Call(SetTop(s, [f EXCEPT !.at = "res", !.obj = s.c.v, !.toks = s.c.toks]),
            "eval", f.env, s.c.v, 0, "top")

\* exec after the result was printed: the collection, and the loop again.
exec_collect(s) ==
    LET s0 == IF Len(s.k) = 1
              THEN [s EXCEPT !.trigger = <<[since |-> s.objects_since_last_collection,
                                            live |-> s.survived, ran |-> gc_due(s)]>>]
              ELSE s
    IN exec_loop(IF gc_due(s) THEN gc_sweep(gc_mark(s0)) ELSE s0)

\* An exec that reports an Error result and goes on with the next form.
exec_res_on(s) ==
    LET f   == Top(s)
        res == s.c.v
    IN exec_collect(SetTop(IF res # NULL
                           THEN fprint(s, IF is_type(s, res, "ERROR") THEN "stderr" ELSE "stdout",
                                       res)
                           ELSE s,
                           [f EXCEPT !.res = res]))

\* res = eval(env, obj) returned.
exec_res(s) ==
    LET f      == Top(s)
        res    == s.c.v
        Got(s1) == IF is_type(s1, res, "ERROR")
                   THEN Ret(Pop(fprint([s1 EXCEPT !.skipped = f.toks], "stderr", res)), NULL)
                   ELSE exec_collect(IF res # NULL THEN fprint(s1, "stdout", res) ELSE s1)
    IN Got(SetTop(IF Len(s.k) = 1 THEN [s EXCEPT !.last = res, !.forms = @ + 1] ELSE s,
                  [f EXCEPT !.res = res]))

(***************************************************************************)
(* One step of the interpreter: the call in st.c is entered, or the value  *)
(* in st.c is returned to the function on top of the C stack.              *)
(***************************************************************************)
Enter(s) ==
    LET c == s.c
    IN CASE c.fn = "eval"               -> eval(s, c.env, c.obj, c.role)
         [] c.fn = "eval_function_call" -> eval_function_call(s, c.env, c.obj, c.flag)
         [] c.fn = "eval_unquote"       -> eval_unquote(s, c.env, c.obj)
         [] c.fn = "parse"              -> parse(s, c.toks)
         [] c.fn = "expr"               -> expr(s, c.toks)
         [] c.fn = "exec"               -> exec(s, c.env, c.toks)

Resume(s) ==
    LET f == Top(s)
    IN CASE f.at = "tail"     -> Ret(Pop(s), s.c.v)
         [] f.fn = "eval"     -> eval_res(s)
         [] f.fn = "eval_function_call" /\ f.at \in {"function", "arg"} ->
                eval_function_call_function(s)
         [] f.fn = "eval_function_call" /\ f.at = "result"   -> eval_function_call_result(s)
         [] f.fn = "eval_function_call" /\ f.at = "expanded" -> Ret(Pop(s), s.c.v)
         [] f.fn = "eval_eval_special_form"       -> eval_eval_special_form_arg(s)
         [] f.fn = "eval_unquote"                 -> eval_unquote_elem(s)
         [] f.fn = "eval_quasiquote_special_form" /\ f.at = "item" ->
                eval_quasiquote_special_form_item(s)
         [] f.fn = "eval_quasiquote_special_form" /\ f.at = "append" ->
                eval_quasiquote_special_form_append(s)
         [] f.fn = "eval_define_special_form"     -> eval_define_special_form_value(s)
         [] f.fn = "eval_let_special_form"        -> eval_let_special_form_value(s)
         [] f.fn = "eval_set_special_form"        -> eval_set_special_form_value(s)
         [] f.fn = "eval_if_special_form"         -> eval_if_special_form_result(s)
         [] f.fn = "eval_do_special_form"         -> eval_do_special_form_res(s)
         [] f.fn = "macroexpand" /\ f.at = "expanded"     -> macroexpand_expanded(s)
         [] f.fn = "macroexpand" /\ f.at = "expanded_car" -> macroexpand_expanded_car(s)
         [] f.fn = "builtin_read"                 -> builtin_read_obj(s)
         [] f.fn = "quote"                        -> quote_expr(s)
         [] f.fn = "list"                         -> list_expr(s)
         [] f.fn = "exec" /\ f.at = "obj"         -> exec_obj(s)
         [] f.fn = "exec" /\ f.at = "res"         -> exec_res(s)

Step(s) == IF s.c.mode = "call" THEN Enter(s) ELSE Resume(s)

(***************************************************************************)
(* main (lisp.c:3732-3776): the root frame, the collector, init_env; then  *)
(* every input text is handed to exec.                                     *)
(***************************************************************************)
Builtins ==
    <<"apply", "car", "setcar", "cdr", "setcdr", "type", "cons", "print", "import",
      "list", "read", "append", "error", "copy", "len", "find", "last", "open",
      "macroexpand", "macroexpand-1", "gc-mark", "gc-sweep",
      "=", ">", "<", "+", "-", "*", "/">>

\* The calls env_put(env, name, function_new(name, fn)) of init_env for
\* Builtins[lo] .. Builtins[hi], in the order of the source.
RECURSIVE put_builtins(_, _, _, _)
put_builtins(s, env, lo, hi) ==
    IF lo > hi \/ s.fault # "" THEN s
    ELSE IF lo = hi
         THEN env_put(function_new(s, Builtins[lo]), env, Builtins[lo], s.nextid)
         ELSE put_builtins(put_builtins(s, env, lo, (lo + hi) \div 2),
                           env, (lo + hi) \div 2 + 1, hi)

\* init_env up to its last statement, the call of exec that imports the
\* core library.
init_env(s, env) ==
    LET s1 == env_put(s, env, "nil", NULL)
        s2 == env_put(bool_new(s1, TRUE), env, "true", s1.nextid)
        s3 == env_put(bool_new(s2, FALSE), env, "false", s2.nextid)
        s4 == put_builtins(s3, env, 1, Len(Builtins))
    IN exec(s4, env, <<LP, Sym("import"), Str("lib/core.lisp"), RP>>)

\* env_new(NULL) and gc_new(env): the state before init_env.  Beside the
\* program's own state (heap, tail, the two counters, envs, gc_env, the C
\* stack k and the control c) st holds what the outside sees (files, lexed,
\* out, fault) and the logs the properties are read from: ev, the events
\* of the form under evaluation; gclog, the collections run during it;
\* root_freed and inflight_freed, the objects a sweep released that the
\* root frame resp. the C stack still reached; stale and uaf, the released
\* objects read since; last and forms, the last result of the outermost
\* exec and the number of its forms; skipped, the text an exec left unread
\* when it ended on an Error; survived, the number of objects the last
\* sweep left; trigger, what the outermost exec last decided about a
\* collection and the counts it decided on; sweeps, the sweeps run so far;
\* reclaimed, the objects the last sweep released that neither the root
\* frame nor the C stack reached; wild, a value that is no function has been
\* called.
Fresh(files, tail) ==
    [heap |-> <<>>, nextid |-> 1, tail |-> tail,
     objects_since_last_collection |-> 0, objects_at_last_collection |-> 0,
     envs |-> <<[map |-> <<>>, marked |-> 0, prev |-> NULL]>>, gc_env |-> 1,
     files |-> files, lexed |-> Texts, out |-> <<>>, last |-> NULL, forms |-> 0,
     k |-> <<>>, c |-> Idle, gclog |-> <<>>, inflight_freed |-> {}, root_freed |-> {},
     stale |-> {}, skipped |-> <<>>, survived |-> 0, trigger |-> <<>>,
     sweeps |-> 0, reclaimed |-> 0,
     fault |-> "", uaf |-> FALSE, wild |-> FALSE, ev |-> <<>>]

\* The file systems main may start in: lib/core.lisp is found or is not.
UserFiles == ("a.lisp" :> "a.lisp")

CoreFiles == ("lib/core.lisp" :> "core.lisp") @@ UserFiles

(***************************************************************************)
(* The inputs: a session is the sequence of texts main hands to exec, the  *)
(* files named on the command line or the lines typed at the prompt.       *)
(***************************************************************************)
\* The longest list and the most arguments the generated forms have.
MaxLen == 2

\* The tokens of 1 2 ... n and of '(1 2 ... n).
Nums(n) == [i \in 1..n |-> Num(i)]

Quoted(n) == <<QT, LP>> \o Nums(n) \o <<RP>>

Sessions ==
    {
       \* a closure kept in a list, then two collection cycles
       \*   (define l (let (x (list 1 2)) (list (lambda () x))))
       \*   (gc-mark)
       \*   (gc-sweep)
       \*   (gc-mark)
       \*   (gc-sweep)
       <<<<LP, Sym("define"), Sym("l"), LP, Sym("let"), LP, Sym("x"), LP, Sym("list"), Num(1),
            Num(2), RP, RP, LP, Sym("list"), LP, Sym("lambda"), LP, RP, Sym("x"), RP, RP, RP,
            RP>>,
          <<LP, Sym("gc-mark"), RP>>,
          <<LP, Sym("gc-sweep"), RP>>,
          <<LP, Sym("gc-mark"), RP>>,
          <<LP, Sym("gc-sweep"), RP>>>>,
       \* lists and closures bound in the root frame, then a collection cycle
       \*   (define v (list 1 2))
       \*   (define g (lambda (a) a))
       \*   (set v (list 3))
       \*   (gc-mark)
       \*   (gc-sweep)
       \*   (g v)
       <<<<LP, Sym("define"), Sym("v"), LP, Sym("list"), Num(1), Num(2), RP, RP>>,
          <<LP, Sym("define"), Sym("g"), LP, Sym("lambda"), LP, Sym("a"), RP, Sym("a"), RP, RP>>,
          <<LP, Sym("set"), Sym("v"), LP, Sym("list"), Num(3), RP, RP>>,
          <<LP, Sym("gc-mark"), RP>>,
          <<LP, Sym("gc-sweep"), RP>>,
          <<LP, Sym("g"), Sym("v"), RP>>>>,
       \* a collection cycle in the middle of a form
       \*   (define x 7)
       \*   (do (gc-mark) (gc-sweep) x)
       <<<<LP, Sym("define"), Sym("x"), Num(7), RP>>,
          <<LP, Sym("do"), LP, Sym("gc-mark"), RP, LP, Sym("gc-sweep"), RP, Sym("x"), RP>>>>,
       \* an import, with exec's collection, in the middle of a form
       \*   (do (import "a.lisp") z)
       <<<<LP, Sym("do"), LP, Sym("import"), Str("a.lisp"), RP, Sym("z"), RP>>>>,
       \* a closure made in a let, called where y is bound otherwise
       \*   (define f (let (y 1) (lambda () y)))
       \*   (f)
       \*   (define y 2)
       \*   (f)
       <<<<LP, Sym("define"), Sym("f"), LP, Sym("let"), LP, Sym("y"), Num(1), RP, LP,
            Sym("lambda"), LP, RP, Sym("y"), RP, RP, RP>>,
          <<LP, Sym("f"), RP>>,
          <<LP, Sym("define"), Sym("y"), Num(2), RP>>,
          <<LP, Sym("f"), RP>>>>,
       \* a closure made by a call
       \*   (define g (lambda (a) (lambda () a)))
       \*   ((g 5))
       <<<<LP, Sym("define"), Sym("g"), LP, Sym("lambda"), LP, Sym("a"), RP, LP, Sym("lambda"),
            LP, RP, Sym("a"), RP, RP, RP>>,
          <<LP, LP, Sym("g"), Num(5), RP, RP>>>>,
       \* set in a lambda called in a let
       \*   (let (x 5) (do ((lambda (a) (set x 6)) 1) x))
       <<<<LP, Sym("let"), LP, Sym("x"), Num(5), RP, LP, Sym("do"), LP, LP, Sym("lambda"), LP,
            Sym("a"), RP, LP, Sym("set"), Sym("x"), Num(6), RP, RP, Num(1), RP, Sym("x"), RP,
            RP>>>>,
       \* set in the frame that binds the name, and at top level
       \*   (let (x 100) (do (set x 200) x))
       \*   (define x 10)
       \*   (set x 5)
       \*   x
       \*   (set (p 1) (q 2))
       \*   q
       <<<<LP, Sym("let"), LP, Sym("x"), Num(100), RP, LP, Sym("do"), LP, Sym("set"), Sym("x"),
            Num(200), RP, Sym("x"), RP, RP>>,
          <<LP, Sym("define"), Sym("x"), Num(10), RP>>,
          <<LP, Sym("set"), Sym("x"), Num(5), RP>>,
          <<Sym("x")>>,
          <<LP, Sym("set"), LP, Sym("p"), Num(1), RP, LP, Sym("q"), Num(2), RP, RP>>,
          <<Sym("q")>>>>,
       \* Error values in arguments
       \*   (type (append '(a b c) 1 2 3))
       \*   (list (error "e") 2)
       <<<<LP, Sym("type"), LP, Sym("append"), QT, LP, Sym("a"), Sym("b"), Sym("c"), RP, Num(1),
            Num(2), Num(3), RP, RP>>,
          <<LP, Sym("list"), LP, Sym("error"), Str("e"), RP, Num(2), RP>>>>,
       \* Error values in do
       \*   (do (error "e") 1)
       \*   (do 1 (error "e"))
       <<<<LP, Sym("do"), LP, Sym("error"), Str("e"), RP, Num(1), RP>>,
          <<LP, Sym("do"), Num(1), LP, Sym("error"), Str("e"), RP, RP>>>>,
       \* Error values in let
       \*   (let (x (error "e")) 1)
       \*   (let (x 1) (error "e"))
       <<<<LP, Sym("let"), LP, Sym("x"), LP, Sym("error"), Str("e"), RP, RP, Num(1), RP>>,
          <<LP, Sym("let"), LP, Sym("x"), Num(1), RP, LP, Sym("error"), Str("e"), RP, RP>>>>,
       \* Error values in if
       \*   (if (error "e") 1 2)
       \*   (if true (error "e") 2)
       <<<<LP, Sym("if"), LP, Sym("error"), Str("e"), RP, Num(1), Num(2), RP>>,
          <<LP, Sym("if"), Sym("true"), LP, Sym("error"), Str("e"), RP, Num(2), RP>>>>,
       \* an Error value returned by a function body
       \*   ((lambda () (error "e")))
       <<<<LP, LP, Sym("lambda"), LP, RP, LP, Sym("error"), Str("e"), RP, RP, RP>>>>,
       \* an Error value yielded by the form eval is given and by a macro's expansion
       \*   (eval '(error "e"))
       \*   (define m (macro () '(error "e")))
       \*   (m)
       <<<<LP, Sym("eval"), QT, LP, Sym("error"), Str("e"), RP, RP>>,
          <<LP, Sym("define"), Sym("m"), LP, Sym("macro"), LP, RP, QT, LP, Sym("error"),
            Str("e"), RP, RP, RP>>,
          <<LP, Sym("m"), RP>>>>,
       \* quasiquote of templates without unquote
       \*   `a
       \*   `5
       \*   `()
       \*   `(a b)
       \*   `(a (b c))
       \*   (quasiquote (a b) c)
       <<<<BT, Sym("a")>>,
          <<BT, Num(5)>>,
          <<BT, LP, RP>>,
          <<BT, LP, Sym("a"), Sym("b"), RP>>,
          <<BT, LP, Sym("a"), LP, Sym("b"), Sym("c"), RP, RP>>,
          <<LP, Sym("quasiquote"), LP, Sym("a"), Sym("b"), RP, Sym("c"), RP>>>>,
       \* quasiquote of templates with unquote
       \*   (define x 5)
       \*   `(a ,x)
       \*   `(a (b ,x) ,(+ x 1))
       \*   `,x
       \*   `(,x)
       <<<<LP, Sym("define"), Sym("x"), Num(5), RP>>,
          <<BT, LP, Sym("a"), CM, Sym("x"), RP>>,
          <<BT, LP, Sym("a"), LP, Sym("b"), CM, Sym("x"), RP, CM, LP, Sym("+"), Sym("x"), Num(1),
            RP, RP>>,
          <<BT, CM, Sym("x")>>,
          <<BT, LP, CM, Sym("x"), RP>>>>,
       \* apply
       \*   (apply + 1 2 '(3 4))
       \*   (apply list 1 2)
       \*   (apply list '(a b))
       \*   (apply list 1 '((+ 1 2)))
       <<<<LP, Sym("apply"), Sym("+"), Num(1), Num(2), QT, LP, Num(3), Num(4), RP, RP>>,
          <<LP, Sym("apply"), Sym("list"), Num(1), Num(2), RP>>,
          <<LP, Sym("apply"), Sym("list"), QT, LP, Sym("a"), Sym("b"), RP, RP>>,
          <<LP, Sym("apply"), Sym("list"), Num(1), QT, LP, LP, Sym("+"), Num(1), Num(2), RP, RP,
            RP>>>>,
       \* a recursion without end
       \*   (define r (lambda (n) (r n)))
       \*   (r 1)
       <<<<LP, Sym("define"), Sym("r"), LP, Sym("lambda"), LP, Sym("n"), RP, LP, Sym("r"),
            Sym("n"), RP, RP, RP>>,
          <<LP, Sym("r"), Num(1), RP>>>>,
       \* the macros of the core library
       \*   (defn inc (n) (+ n 1))
       \*   (inc 2)
       \*   (cond false 1 true 2)
       \*   (dotimes (print 7) 2)
       <<<<LP, Sym("defn"), Sym("inc"), LP, Sym("n"), RP, LP, Sym("+"), Sym("n"), Num(1), RP,
            RP>>,
          <<LP, Sym("inc"), Num(2), RP>>,
          <<LP, Sym("cond"), Sym("false"), Num(1), Sym("true"), Num(2), RP>>,
          <<LP, Sym("dotimes"), LP, Sym("print"), Num(7), RP, Num(2), RP>>>>,
       \* macroexpand, eval and read
       \*   (define m (macro (y) `(+ ,y ,y)))
       \*   (m 3)
       \*   (macroexpand-1 '(m 6))
       \*   (macroexpand '(m 6))
       \*   (eval '(+ 1 2))
       \*   (list (m (+ 1 2)) (macroexpand-1 '(m (+ 1 2))) (apply m '((+ 1 2))))
       <<<<LP, Sym("define"), Sym("m"), LP, Sym("macro"), LP, Sym("y"), RP, BT, LP, Sym("+"), CM,
            Sym("y"), CM, Sym("y"), RP, RP, RP>>,
          <<LP, Sym("m"), Num(3), RP>>,
          <<LP, Sym("macroexpand-1"), QT, LP, Sym("m"), Num(6), RP, RP>>,
          <<LP, Sym("macroexpand"), QT, LP, Sym("m"), Num(6), RP, RP>>,
          <<LP, Sym("eval"), QT, LP, Sym("+"), Num(1), Num(2), RP, RP>>,
          <<LP, Sym("list"), LP, Sym("m"), LP, Sym("+"), Num(1), Num(2), RP, RP, LP,
            Sym("macroexpand-1"), QT, LP, Sym("m"), LP, Sym("+"), Num(1), Num(2), RP, RP, RP, LP,
            Sym("apply"), Sym("m"), QT, LP, LP, Sym("+"), Num(1), Num(2), RP, RP, RP, RP>>>>,
       \* a macro that expands into a call of another macro
       \*   (define m2 (macro (y) `(+ ,y ,y)))
       \*   (define m1 (macro (x) `(m2 ,x)))
       \*   (macroexpand-1 '(m1 6))
       \*   (macroexpand '(m1 6))
       \*   (list (macroexpand-1 '(m1 6)) (macroexpand '(m1 6)))
       \*   (macroexpand '(+ 1 2))
       <<<<LP, Sym("define"), Sym("m2"), LP, Sym("macro"), LP, Sym("y"), RP, BT, LP, Sym("+"),
            CM, Sym("y"), CM, Sym("y"), RP, RP, RP>>,
          <<LP, Sym("define"), Sym("m1"), LP, Sym("macro"), LP, Sym("x"), RP, BT, LP, Sym("m2"),
            CM, Sym("x"), RP, RP, RP>>,
          <<LP, Sym("macroexpand-1"), QT, LP, Sym("m1"), Num(6), RP, RP>>,
          <<LP, Sym("macroexpand"), QT, LP, Sym("m1"), Num(6), RP, RP>>,
          <<LP, Sym("list"), LP, Sym("macroexpand-1"), QT, LP, Sym("m1"), Num(6), RP, RP, LP,
            Sym("macroexpand"), QT, LP, Sym("m1"), Num(6), RP, RP, RP>>,
          <<LP, Sym("macroexpand"), QT, LP, Sym("+"), Num(1), Num(2), RP, RP>>>>,
       \* define in a let and in a call
       \*   (let (a 1) (define d (+ a 1)))
       \*   d
       \*   ((lambda (b) (define e b)) 3)
       \*   e
       \*   (let (d 1) (do (define d 7) d))
       \*   d
       \*   (do (let (x 10) (define y 20)) y)
       <<<<LP, Sym("let"), LP, Sym("a"), Num(1), RP, LP, Sym("define"), Sym("d"), LP, Sym("+"),
            Sym("a"), Num(1), RP, RP, RP>>,
          <<Sym("d")>>,
          <<LP, LP, Sym("lambda"), LP, Sym("b"), RP, LP, Sym("define"), Sym("e"), Sym("b"), RP,
            RP, Num(3), RP>>,
          <<Sym("e")>>,
          <<LP, Sym("let"), LP, Sym("d"), Num(1), RP, LP, Sym("do"), LP, Sym("define"), Sym("d"),
            Num(7), RP, Sym("d"), RP, RP>>,
          <<Sym("d")>>,
          <<LP, Sym("do"), LP, Sym("let"), LP, Sym("x"), Num(10), RP, LP, Sym("define"),
            Sym("y"), Num(20), RP, RP, Sym("y"), RP>>>>,
       \* let: values, names bound twice, no pair, a name without value
       \*   (define a 9)
       \*   (let (a 1 b a) (list a b))
       \*   (let (x 1 x 2) x)
       \*   (let () 5)
       \*   (let (x) x)
       \*   a
       <<<<LP, Sym("define"), Sym("a"), Num(9), RP>>,
          <<LP, Sym("let"), LP, Sym("a"), Num(1), Sym("b"), Sym("a"), RP, LP, Sym("list"),
            Sym("a"), Sym("b"), RP, RP>>,
          <<LP, Sym("let"), LP, Sym("x"), Num(1), Sym("x"), Num(2), RP, Sym("x"), RP>>,
          <<LP, Sym("let"), LP, RP, Num(5), RP>>,
          <<LP, Sym("let"), LP, Sym("x"), RP, Sym("x"), RP>>,
          <<Sym("a")>>>>,
       \* a file with an Error in the middle
       \*   (define a 1) (foo) (define b 2)
       \*   a
       \*   b
       \*   (define c 3) (error "e") (define c 4)
       \*   c
       <<<<LP, Sym("define"), Sym("a"), Num(1), RP, LP, Sym("foo"), RP, LP, Sym("define"),
            Sym("b"), Num(2), RP>>,
          <<Sym("a")>>,
          <<Sym("b")>>,
          <<LP, Sym("define"), Sym("c"), Num(3), RP, LP, Sym("error"), Str("e"), RP, LP,
            Sym("define"), Sym("c"), Num(4), RP>>,
          <<Sym("c")>>>>,
       \* a list marked while bound, unbound, and met by two sweeps
       \*   (define a (list 1 2))
       \*   (do (gc-mark) (define a 3) (gc-sweep) (gc-mark) (gc-sweep) a)
       <<<<LP, Sym("define"), Sym("a"), LP, Sym("list"), Num(1), Num(2), RP, RP>>,
          <<LP, Sym("do"), LP, Sym("gc-mark"), RP, LP, Sym("define"), Sym("a"), Num(3), RP, LP,
            Sym("gc-sweep"), RP, LP, Sym("gc-mark"), RP, LP, Sym("gc-sweep"), RP, Sym("a"),
            RP>>>>,
       \* do: an empty list among the elements, no element, a nil symbol
       \*   (do 1 () 2)
       \*   (define x 0)
       \*   (do (define x 1) () (define x 2))
       \*   x
       \*   (do)
       \*   (do 1 nil 3)
       <<<<LP, Sym("do"), Num(1), LP, RP, Num(2), RP>>,
          <<LP, Sym("define"), Sym("x"), Num(0), RP>>,
          <<LP, Sym("do"), LP, Sym("define"), Sym("x"), Num(1), RP, LP, RP, LP, Sym("define"),
            Sym("x"), Num(2), RP, RP>>,
          <<Sym("x")>>,
          <<LP, Sym("do"), RP>>,
          <<LP, Sym("do"), Num(1), Sym("nil"), Num(3), RP>>>>,
       \* a quasiquote in a function body, called twice
       \*   (define f (lambda (x) `(a ,x (b ,x))))
       \*   (f 1)
       \*   (list (f 2) (f 3))
       \*   f
       <<<<LP, Sym("define"), Sym("f"), LP, Sym("lambda"), LP, Sym("x"), RP, BT, LP, Sym("a"),
            CM, Sym("x"), LP, Sym("b"), CM, Sym("x"), RP, RP, RP, RP>>,
          <<LP, Sym("f"), Num(1), RP>>,
          <<LP, Sym("list"), LP, Sym("f"), Num(2), RP, LP, Sym("f"), Num(3), RP, RP>>,
          <<Sym("f")>>>>,
       \* equality of values of every kind
       \*   (= 1 1)
       \*   (= 1 2)
       \*   (= "s" "s")
       \*   (= "s" "t")
       \*   (= 'a 'a)
       \*   (= 'a 'b)
       \*   (= nil nil)
       \*   (= nil 1)
       \*   (= true false)
       \*   (= 1 "1")
       \*   (= 1 true)
       \*   (= '(1 (2)) '(1 (2)))
       \*   (= '(1 2) '(1 3))
       \*   (define f (lambda (x) x))
       \*   (= f f)
       \*   (= f (lambda (y) (+ y 1)))
       \*   (= car cdr)
       <<<<LP, Sym("="), Num(1), Num(1), RP>>,
          <<LP, Sym("="), Num(1), Num(2), RP>>,
          <<LP, Sym("="), Str("s"), Str("s"), RP>>,
          <<LP, Sym("="), Str("s"), Str("t"), RP>>,
          <<LP, Sym("="), QT, Sym("a"), QT, Sym("a"), RP>>,
          <<LP, Sym("="), QT, Sym("a"), QT, Sym("b"), RP>>,
          <<LP, Sym("="), Sym("nil"), Sym("nil"), RP>>,
          <<LP, Sym("="), Sym("nil"), Num(1), RP>>,
          <<LP, Sym("="), Sym("true"), Sym("false"), RP>>,
          <<LP, Sym("="), Num(1), Str("1"), RP>>,
          <<LP, Sym("="), Num(1), Sym("true"), RP>>,
          <<LP, Sym("="), QT, LP, Num(1), LP, Num(2), RP, RP, QT, LP, Num(1), LP, Num(2), RP, RP,
            RP>>,
          <<LP, Sym("="), QT, LP, Num(1), Num(2), RP, QT, LP, Num(1), Num(3), RP, RP>>,
          <<LP, Sym("define"), Sym("f"), LP, Sym("lambda"), LP, Sym("x"), RP, Sym("x"), RP, RP>>,
          <<LP, Sym("="), Sym("f"), Sym("f"), RP>>,
          <<LP, Sym("="), Sym("f"), LP, Sym("lambda"), LP, Sym("y"), RP, LP, Sym("+"), Sym("y"),
            Num(1), RP, RP, RP>>,
          <<LP, Sym("="), Sym("car"), Sym("cdr"), RP>>>>,
       \* a list whose cdr is itself, and a mark
       \*   (define l (list 1 2))
       \*   (setcdr l l)
       \*   (gc-mark)
       <<<<LP, Sym("define"), Sym("l"), LP, Sym("list"), Num(1), Num(2), RP, RP>>,
          <<LP, Sym("setcdr"), Sym("l"), Sym("l"), RP>>,
          <<LP, Sym("gc-mark"), RP>>>>,
       \* a closure bound in the frame it captured, and a mark
       \*   (define g (let (n 1) (do (define h (lambda () n)) (lambda () h))))
       \*   (gc-mark)
       \*   (gc-sweep)
       <<<<LP, Sym("define"), Sym("g"), LP, Sym("let"), LP, Sym("n"), Num(1), RP, LP, Sym("do"),
            LP, Sym("define"), Sym("h"), LP, Sym("lambda"), LP, RP, Sym("n"), RP, RP, LP,
            Sym("lambda"), LP, RP, Sym("h"), RP, RP, RP, RP>>,
          <<LP, Sym("gc-mark"), RP>>,
          <<LP, Sym("gc-sweep"), RP>>>>,
       \* forms whose head is a number, a string, a list, a bool
       \*   (1 2 3)
       \*   ("s" 1)
       \*   (define x 0)
       \*   (1 (define x 5))
       \*   x
       \*   ('(1 2) 1)
       \*   (true 1)
       <<<<LP, Num(1), Num(2), Num(3), RP>>,
          <<LP, Str("s"), Num(1), RP>>,
          <<LP, Sym("define"), Sym("x"), Num(0), RP>>,
          <<LP, Num(1), LP, Sym("define"), Sym("x"), Num(5), RP, RP>>,
          <<Sym("x")>>,
          <<LP, QT, LP, Num(1), Num(2), RP, Num(1), RP>>,
          <<LP, Sym("true"), Num(1), RP>>>>,
       \* a test that fails and a test that passes
       \*   (deftest t1 (assert (= 1 2)))
       \*   (deftest t2 (assert (= 1 1)))
       <<<<LP, Sym("deftest"), Sym("t1"), LP, Sym("assert"), LP, Sym("="), Num(1), Num(2), RP,
            RP, RP>>,
          <<LP, Sym("deftest"), Sym("t2"), LP, Sym("assert"), LP, Sym("="), Num(1), Num(1), RP,
            RP, RP>>>>,
       \* a file of arithmetic and comparisons
       \*   (+ 1 2 3) (- 5 2) (* 2 3) (/ 7 2) (< 1 2) (> 1 2) (= '(a) '(a)) (/ 1 0)
       <<<<LP, Sym("+"), Num(1), Num(2), Num(3), RP, LP, Sym("-"), Num(5), Num(2), RP, LP,
            Sym("*"), Num(2), Num(3), RP, LP, Sym("/"), Num(7), Num(2), RP, LP, Sym("<"), Num(1),
            Num(2), RP, LP, Sym(">"), Num(1), Num(2), RP, LP, Sym("="), QT, LP, Sym("a"), RP, QT,
            LP, Sym("a"), RP, RP, LP, Sym("/"), Num(1), Num(0), RP>>>>,
       \* list primitives
       \*   (define l '(1 2 3))
       \*   (car l)
       \*   (cdr l)
       \*   (cons 0 l)
       \*   (len l)
       \*   (last l)
       \*   (find 2 l)
       \*   (copy l)
       \*   (setcar l 9)
       \*   (setcdr l nil)
       \*   l
       \*   (type l)
       \*   (print "s")
       \*   (open "a.lisp")
       \*   (foo 1)
       <<<<LP, Sym("define"), Sym("l"), QT, LP, Num(1), Num(2), Num(3), RP, RP>>,
          <<LP, Sym("car"), Sym("l"), RP>>,
          <<LP, Sym("cdr"), Sym("l"), RP>>,
          <<LP, Sym("cons"), Num(0), Sym("l"), RP>>,
          <<LP, Sym("len"), Sym("l"), RP>>,
          <<LP, Sym("last"), Sym("l"), RP>>,
          <<LP, Sym("find"), Num(2), Sym("l"), RP>>,
          <<LP, Sym("copy"), Sym("l"), RP>>,
          <<LP, Sym("setcar"), Sym("l"), Num(9), RP>>,
          <<LP, Sym("setcdr"), Sym("l"), Sym("nil"), RP>>,
          <<Sym("l")>>,
          <<LP, Sym("type"), Sym("l"), RP>>,
          <<LP, Sym("print"), Str("s"), RP>>,
          <<LP, Sym("open"), Str("a.lisp"), RP>>,
          <<LP, Sym("foo"), Num(1), RP>>>>
    }
    \* (append '(1 .. i) '(1 .. j)) and its length
    \cup {<< <<LP, Sym("append")>> \o Quoted(i) \o Quoted(j) \o <<RP>>,
             <<LP, Sym("len"), LP, Sym("append")>> \o Quoted(i) \o Quoted(j) \o <<RP, RP>> >>
            : i \in 0..MaxLen, j \in 0..MaxLen}
    \* ((lambda (a &) (list a & (len &))) 1 .. n) and the same with a macro
    \cup {<< <<LP, LP, Sym("lambda"), LP, Sym("a"), Sym("&"), RP, LP, Sym("list"), Sym("a"),
               Sym("&"), LP, Sym("len"), Sym("&"), RP, RP, RP>> \o Nums(n) \o <<RP>>,
             <<LP, LP, Sym("macro"), LP, Sym("a"), Sym("&"), RP, LP, Sym("len"), Sym("&"), RP,
               RP>> \o Nums(n) \o <<RP>> >>
            : n \in 0..(MaxLen + 1)}
    \* (dotimes (define x (+ x 1)) n) after (define x 0)
    \cup {<< <<LP, Sym("define"), Sym("x"), Num(0), RP>>,
             <<LP, Sym("dotimes"), LP, Sym("define"), Sym("x"), LP, Sym("+"), Sym("x"), Num(1),
               RP, RP, Num(n), RP>>,
             <<Sym("x")>> >>
            : n \in 0..MaxLen}
    \* ((lambda (&) &) 1 .. n)
    \cup {<< <<LP, LP, Sym("lambda"), LP, Sym("&"), RP, Sym("&"), RP>> \o Nums(n) \o <<RP>> >>
            : n \in 0..MaxLen}

(***************************************************************************)
(* The program: main builds the root frame and the collector, init_env     *)
(* fills the frame and imports the core library, then the texts are run.   *)
(***************************************************************************)
\* The first object_new finds gc->tail NULL or WILD; its write through WILD
\* kills the process (dies) or goes unnoticed.
Init ==
    /\ \E files \in {UserFiles, CoreFiles}, tail \in {NULL, WILD}, dies \in BOOLEAN :
          /\ dies => tail = WILD
          /\ st = IF dies THEN Fault(Fresh(files, tail), "write through gc->tail")
                  ELSE init_env(Fresh(files, tail), 1)
          /\ pc = IF dies THEN "crashed" ELSE "boot"
    /\ pending = <<>>
    /\ lx = NoText

\* One step of the evaluation under way.  A step that reads a released
\* object goes on with what the released memory still holds, or the process
\* dies of the read.  A step that takes a value that is no function for
\* one reads the value's bytes as a struct Function: the process dies of
\* the call, or the arguments are evaluated and the call yields nil.
Run ==
    /\ pc \in {"boot", "exec"}
    /\ st.k # <<>>
    /\ \E n \in {Step(st)} :
          \E dies \in IF (n.uaf /\ ~st.uaf) \/ (n.wild /\ ~st.wild) THEN {TRUE, FALSE}
                       ELSE {FALSE} :
              /\ st' = IF dies
                       THEN Fault(n, IF n.wild /\ ~st.wild THEN "call of a non-callable"
                                     ELSE "read of released memory")
                       ELSE n
              /\ pc' = IF st'.fault # "" THEN "crashed" ELSE pc
    /\ UNCHANGED <<pending, lx>>

\* init_env returned: main turns to its arguments, or to the prompt.
Start ==
    /\ pc = "boot"
    /\ st.k = <<>>
    /\ \E session \in Sessions : pending' = session
    /\ st' = [st EXCEPT !.c = Idle]
    /\ pc' = "idle"
    /\ UNCHANGED lx

\* exec(env, str) is called with the next text.
Submit ==
    /\ pc = "idle"
    /\ pending # <<>>
    /\ st' = exec([st EXCEPT !.forms = 0], st.gc_env, Head(pending))
    /\ pending' = Tail(pending)
    /\ pc' = "exec"
    /\ UNCHANGED lx

\* exec returned.
Return ==
    /\ pc = "exec"
    /\ st.k = <<>>
    /\ st' = [st EXCEPT !.c = Idle]
    /\ pc' = "idle"
    /\ UNCHANGED <<pending, lx>>

\* No text is left: main returns.
Exit ==
    /\ pc = "idle"
    /\ pending = <<>>
    /\ pc' = "done"
    /\ UNCHANGED <<st, pending, lx>>

Next == Run \/ Start \/ Submit \/ Return \/ Exit

Spec == Init /\ [][Next]_vars


(***************************************************************************)
(* The lexer and the reader of atoms at work on the characters of a text:  *)
(* next is called at the cursor, and the reader's atom makes the object of *)
(* the token, until T_EOF.                                                 *)
(***************************************************************************)
\* The longest text.
MaxText == 3

\* The bytes the texts are made of: ( ) " ' ; - space newline a 1 and the
\* control character SOH.
Alphabet == {40, 41, 34, 39, 59, 45, 32, 10, 97, 49, 1}

LexTexts == UNION {[1..n -> Alphabet] : n \in 0..MaxText}

LexInit ==
    /\ \E text \in LexTexts : lx = [NoText EXCEPT !.text = text]
    /\ st = Fresh(UserFiles, NULL)
    /\ pending = <<>>
    /\ pc = "lex"

\* next(str).  A scan that read outside the string ends where the memory
\* after the string lets it: the process dies of the read, or a byte that
\* ends the scan is found further on, the cursor left behind it.
LexToken ==
    /\ pc = "lex"
    /\ \E r \in {lex_next(lx.text, lx.p)} :
          IF r.type = ""
          THEN pc' = "hung" /\ lx' = lx
          ELSE IF r.ub
          THEN \E dies \in BOOLEAN, more \in 0..1 :
                   /\ pc' = IF dies THEN "crashed" ELSE "read"
                   /\ lx' = [lx EXCEPT !.p = r.p + more, !.tok = r, !.read = FALSE]
          ELSE /\ pc' = "read"
               /\ lx' = [lx EXCEPT !.p = r.p, !.tok = r, !.read = FALSE]
    /\ UNCHANGED <<st, pending>>

\* The reader takes the token: atom makes the object of a number, a string
\* or a symbol.
LexRead ==
    /\ pc = "read"
    /\ \E a \in {atom(st, <<token_new(lx.tok)>>)} :
          /\ st' = a.st
          /\ lx' = [lx EXCEPT !.obj = a.v, !.read = TRUE]
    /\ pc' = IF lx.tok.type = "T_EOF" THEN "done" ELSE "lex"
    /\ UNCHANGED pending

LexNext == LexToken \/ LexRead

LexSpec == LexInit /\ [][LexNext]_vars

(***************************************************************************)
(* The claims.  Each is stated over the machine's state and the log of    *)
(* the form the outermost exec is evaluating; a claim about an operation   *)
(* is read off the state the operation leaves, where its event is the      *)
(* last of the log.                                                        *)
(***************************************************************************)
Logged(kind) == st.ev # <<>> /\ st.ev[Len(st.ev)].kind = kind

LastEv == st.ev[Len(st.ev)]

\* The elements of the list l, in order.
RECURSIVE Elems(_, _)
Elems(s, l) == IF is_type(s, l, "CONS") THEN <<car(s, l)>> \o Elems(s, cdr(s, l)) ELSE <<>>

RECURSIVE ProperList(_, _)
ProperList(s, l) == l = NULL \/ (is_type(s, l, "CONS") /\ ProperList(s, cdr(s, l)))

\* Structural equality of two values.
RECURSIVE Same(_, _, _)
Same(s, a, b) ==
    IF a = NULL \/ b = NULL THEN a = b
    ELSE IF ~(IsAlloc(s, a) /\ IsAlloc(s, b)) THEN FALSE
    ELSE IF s.heap[a].type # s.heap[b].type THEN FALSE
    ELSE CASE s.heap[a].type \in {"NUMBER", "BOOL"} -> s.heap[a].num = s.heap[b].num
           [] s.heap[a].type \in {"SYMBOL", "STRING", "ERROR"} -> s.heap[a].str = s.heap[b].str
           [] s.heap[a].type = "CONS" ->
                  Same(s, car(s, a), car(s, b)) /\ Same(s, cdr(s, a), cdr(s, b))
           [] OTHER -> a = b

\* The names of the symbols that occur in the form o.
RECURSIVE Symbols(_, _)
Symbols(s, o) ==
    IF is_type(s, o, "SYMBOL") THEN {s.heap[o].str}
    ELSE IF is_type(s, o, "CONS") THEN Symbols(s, car(s, o)) \cup Symbols(s, cdr(s, o))
    ELSE {}

UserDefined(s, o, kinds) ==
    IsAlloc(s, o) /\ s.heap[o].type \in kinds /\ s.heap[o].is_user_defined = 1

\* C1: after any top-level forms and any number of mark-sweep cycles, no
\* object reachable from the root frame (through frame bindings, car/cdr, a
\* user callable's params, body and captured frame, and parent links) has
\* been released by gc_sweep.
C1_RootReachableKept ==
    \A o \in ReachRoot(st).objs : IsAlloc(st, o) => ~st.heap[o].freed

\* A mark-sweep cycle ran while the form of the outermost exec was still
\* being evaluated.
InFlightCycle ==
    \E i \in DOMAIN st.gclog : st.gclog[i].op = "sweep" /\ st.gclog[i].depth > 1

\* C2: when a mark-sweep cycle runs while a form is still being evaluated,
\* nothing that evaluation still needs is released: of the objects the C
\* stack held when the cycle released them, the evaluator reads none.
C2_InFlightKept == InFlightCycle => st.stale \cap st.inflight_freed = {}

\* C3: when a user-defined function is applied, every free variable of its
\* body resolves, from the frame the body is evaluated in, to the binding
\* visible from the function's captured frame, where the lambda was made.
C3_LexicalScope ==
    (Logged("call") /\ UserDefined(st, LastEv.a, {"FUNCTION"})) =>
        \A key \in Symbols(st, st.heap[LastEv.a].body) \ Symbols(st, st.heap[LastEv.a].args) :
            env_get(st, st.envs[LastEv.b].prev, key) = env_get(st, st.heap[LastEv.a].env, key)

\* C4: when set is evaluated in a frame that does not bind the name (the
\* frame of a called lambda) and an enclosing frame binds it (a let frame),
\* the binding written is the enclosing frame's.
C4_SetWritesBinder ==
    (Logged("set") /\ LastEv.c # NULL /\ st.envs[LastEv.c].prev # NULL) =>
        /\ LastEv.b = LastEv.c
        /\ env_get(st, LastEv.c, LastEv.role) = [found |-> TRUE, value |-> LastEv.a]

\* The evaluations logged before event n at the stack depth of event n; the
\* last of them ended the evaluation before the one event n ends.
Before(n) == {j \in 1..(n - 1) : st.ev[j].kind = "ret" /\ st.ev[j].depth = st.ev[n].depth}

\* The sub-expressions the evaluation that event n ends evaluated, as events.
Kids(n) ==
    {i \in 1..(n - 1) : /\ st.ev[i].kind = "ret"
                        /\ st.ev[i].b = st.ev[n].depth
                        /\ \A j \in Before(n) : j < i}

LastKid(n) == CHOOSE i \in Kids(n) : \A j \in Kids(n) : j <= i

YieldsError(i) == is_type(st, st.ev[i].a, "ERROR")

\* C5 as stated: if an argument of an application, an element of do, a let
\* binding value or an if condition yields an Error value, the enclosing
\* form's result is that same Error value.
C5_ErrorPropagates ==
    Logged("ret") =>
        \A i \in Kids(Len(st.ev)) :
            (st.ev[i].role \in {"argument", "do-element", "let-value", "if-cond"}
                /\ YieldsError(i))
            => LastEv.a = st.ev[i].a

\* The positions whose value the enclosing form returns: the last element do
\* evaluates, the body of let, the branch if selects, the body of a called
\* function, the expansion of a macro call, the form eval is given.
TailRoles == {"do-element", "let-body", "if-branch", "body", "expansion", "eval-result"}

\* C5, amended: an Error value yielded by the sub-expression a form
\* evaluates last, in tail position, is the form's result.
C5_TailErrorReturned ==
    (Logged("ret") /\ Kids(Len(st.ev)) # {}) =>
        ((st.ev[LastKid(Len(st.ev))].role \in TailRoles /\ YieldsError(LastKid(Len(st.ev))))
            => LastEv.a = st.ev[LastKid(Len(st.ev))].a)

\* A form has returned the Error value its tail sub-expression yielded.
C5_TailErrorSeen ==
    /\ Logged("ret") /\ Kids(Len(st.ev)) # {}
    /\ st.ev[LastKid(Len(st.ev))].role \in TailRoles
    /\ YieldsError(LastKid(Len(st.ev)))
    /\ LastEv.a = st.ev[LastKid(Len(st.ev))].a

\* The value frame env itself binds key to, NULL when it binds none.
Bound(s, env, key) ==
    IF MapHas(s.envs[env].map, key) THEN s.envs[env].map[MapIdx(s.envs[env].map, key)].value
    ELSE NULL

\* C6: a call with n arguments of a user-defined function or macro whose
\* parameter list has & at index r binds the parameters before r to the
\* arguments 0..r-1 and & to a proper list of exactly the arguments r..n-1.
C6_RestParameter ==
    (Logged("call") /\ UserDefined(st, LastEv.a, {"FUNCTION", "MACRO"})
                    /\ st.heap[LastEv.a].rest_arg # -1) =>
        LET given  == st.ev[Len(st.ev) - 1].xs
            r      == st.heap[LastEv.a].rest_arg
            params == Elems(st, st.heap[LastEv.a].args)
            rest   == Bound(st, LastEv.b, "&")
        IN /\ \A j \in 1..r : j <= Len(given) =>
                  Bound(st, LastEv.b, NameOf(st, params[j])) = given[j]
           /\ MapHas(st.envs[LastEv.b].map, "&")
           /\ ProperList(st, rest)
           /\ Elems(st, rest) = SubSeq(given, r + 1, Len(given))

RECURSIVE HasUnquote(_, _)
HasUnquote(s, t) ==
    is_type(s, t, "CONS")
    /\ (is_unquote(s, t) \/ HasUnquote(s, car(s, t)) \/ HasUnquote(s, cdr(s, t)))

\* C7: (quasiquote x) of a template x without unquote yields a value
\* structurally equal to x.
C7_QuasiquoteIdentity ==
    (Logged("qq") /\ ~HasUnquote(st, LastEv.form)) => Same(st, LastEv.form, LastEv.a)

\* r is the value of the unquoted form arg: what the logged evaluation of
\* (the copy of) arg in the quasiquote's frame yielded.
ValueOf(arg, r) ==
    \E i \in DOMAIN st.ev :
        /\ st.ev[i].kind = "ret" /\ st.ev[i].role = "unquote" /\ st.ev[i].c = LastEv.c
        /\ Same(st, st.ev[i].form, arg) /\ st.ev[i].a = r

\* r is the template t with every unquote replaced by its value.
RECURSIVE Matches(_, _)
Matches(t, r) ==
    IF is_unquote(st, t) THEN ValueOf(car(st, cdr(st, t)), r)
    ELSE IF is_type(st, t, "CONS")
    THEN is_type(st, r, "CONS") /\ Matches(car(st, t), car(st, r))
                                /\ Matches(cdr(st, t), cdr(st, r))
    ELSE Same(st, t, r)

\* C8: the value of a quasiquote whose template holds an unquote is the
\* template with each unquote cons, at any depth, the template itself
\* included, replaced by the value of its argument, and all else in place.
C8_UnquoteSubstitution ==
    (Logged("qq") /\ HasUnquote(st, LastEv.form)) => Matches(LastEv.form, LastEv.a)

\* The arguments (apply f x1 ... xk last) is to call f with, xs being
\* apply's own argument vector <<f, x1, ..., xk, last>>.
Spliced(s, xs) ==
    SubSeq(xs, 2, Len(xs) - 1)
    \o (IF is_type(s, xs[Len(xs)], "CONS") THEN Elems(s, xs[Len(xs)]) ELSE <<xs[Len(xs)]>>)

\* C9: the function apply calls receives exactly the values x1..xk followed
\* by the elements of last (or last itself), not what evaluating them again
\* yields.
C9_ApplyPassesValues ==
    Logged("call") =>
        \A i \in DOMAIN st.ev :
            (st.ev[i].kind = "apply" /\ st.ev[i].form = LastEv.form /\ Len(st.ev[i].xs) >= 2)
            => st.ev[Len(st.ev) - 1].xs = Spliced(st, st.ev[i].xs)

\* C10: for proper lists a and b, nil included, (append a b) is the proper
\* list of the elements of a followed by those of b, of length
\* (len a) + (len b).
C10_AppendConcatenates ==
    (Logged("call") /\ is_type(st, LastEv.a, "FUNCTION") /\ st.heap[LastEv.a].fn = "append"
        /\ Len(LastEv.xs) = 2 /\ ProperList(st, LastEv.xs[1]) /\ ProperList(st, LastEv.xs[2])
        /\ st.c.mode = "ret") =>
        /\ ProperList(st, st.c.v)
        /\ Elems(st, st.c.v) = Elems(st, LastEv.xs[1]) \o Elems(st, LastEv.xs[2])
        /\ length(st, st.c.v) = length(st, LastEv.xs[1]) + length(st, LastEv.xs[2])

\* Event i is the call of a user-defined macro, made by the evaluator
\* (how = "eval") or by macroexpand-1 or apply (how = "direct").
MacroCall(i, how) ==
    st.ev[i].kind = "call" /\ st.ev[i].role = how /\ UserDefined(st, st.ev[i].a, {"MACRO"})

\* The calls the evaluation that event n ends made of its own form, made
\* one C frame above it and by the caller how, of a callable that is Fn.
CallsOf(n, how, Fn(_)) ==
    {i \in 1..(n - 1) : /\ st.ev[i].kind = "call" /\ st.ev[i].role = how
                        /\ st.ev[i].form = st.ev[n].form
                        /\ st.ev[i].depth = st.ev[n].depth + 1
                        /\ Fn(st.ev[i].a)
                        /\ \A j \in Before(n) : j < i}

\* The evaluations in position role that the evaluation event n ends made
\* itself after event i.
KidsAfter(n, i, role) == {k \in Kids(n) : k > i /\ st.ev[k].role = role}

IsMacro(o) == UserDefined(st, o, {"MACRO"})

Expander(o) == is_type(st, o, "FUNCTION") /\ st.heap[o].is_user_defined = 0
               /\ st.heap[o].fn \in {"apply", "macroexpand-1"}

\* The macro body has run once for the call and its value was evaluated
\* once more, in the caller's frame, to give the value of event n.
ExpandedOnce(n, i) ==
    /\ Cardinality(KidsAfter(n, i, "body")) = 1
    /\ Cardinality(KidsAfter(n, i, "expansion")) = 1
    /\ \A b \in KidsAfter(n, i, "body") : \A e \in KidsAfter(n, i, "expansion") :
           /\ b < e
           /\ st.ev[e].form = st.ev[b].a
           /\ st.ev[e].c = st.ev[i].c
           /\ st.ev[n].a = st.ev[e].a

\* The macro body has run once for the direct call k and its value is the
\* value of event n, not evaluated again.
ReturnedAsIs(n, k) ==
    /\ Cardinality(KidsAfter(n, k, "body")) = 1
    /\ KidsAfter(n, k, "expansion") = {}
    /\ \A b \in KidsAfter(n, k, "body") : st.ev[n].a = st.ev[b].a

\* The arguments of the macro call that is the last event were taken as
\* they stand in the form, nothing was evaluated between the head and the
\* body, and the parameters are bound to the argument forms.
BoundUnevaluated ==
    LET n      == Len(st.ev)
        params == Elems(st, st.heap[LastEv.a].args)
    IN /\ n >= 3
       /\ st.ev[n - 1].kind = "args"
       /\ st.ev[n - 1].xs = Elems(st, cdr(st, LastEv.form))
       /\ st.ev[n - 2].kind = "ret" /\ st.ev[n - 2].role = "head"
       /\ st.ev[n - 2].a = LastEv.a
       /\ st.heap[LastEv.a].rest_arg = -1 =>
              \A j \in DOMAIN params :
                  (\A l \in DOMAIN params : l > j => NameOf(st, params[l]) # NameOf(st, params[j]))
                  => Bound(st, LastEv.b, NameOf(st, params[j])) = Arg(st.ev[n - 1].xs, j - 1)

\* C11: when a macro is applied no argument form is evaluated before its
\* body runs and its parameters are bound to the argument forms; called by
\* the evaluator, the body's value is evaluated exactly once more, in the
\* caller's frame; called through macroexpand-1 or apply, the body's value
\* is returned as it is.
C11_MacroProtocol ==
    /\ (Logged("call") /\ IsMacro(LastEv.a)) => BoundUnevaluated
    /\ \A n \in DOMAIN st.ev :
           st.ev[n].kind = "ret" =>
               /\ \A i \in CallsOf(n, "eval", IsMacro) : ExpandedOnce(n, i)
               /\ \A i \in CallsOf(n, "eval", Expander) :
                      \A k \in (i + 1)..(n - 1) :
                          (MacroCall(k, "direct") /\ st.ev[k].depth = st.ev[n].depth + 2)
                          => ReturnedAsIs(n, k)

\* Event n ends an evaluation in which Fn was called by the evaluator and a
\* macro was then called directly, its body's value returned as it is.
DirectlyExpanded(n, name) ==
    \E i \in CallsOf(n, "eval", Expander) :
        /\ st.heap[st.ev[i].a].fn = name
        /\ \E k \in (i + 1)..(n - 1) :
               /\ MacroCall(k, "direct") /\ st.ev[k].depth = st.ev[n].depth + 2
               /\ ReturnedAsIs(n, k)

\* One form has applied a macro to an argument form that is a call, has
\* expanded the same call with macroexpand-1 and has applied the macro with
\* apply.
C11_MacroApplied ==
    /\ \E n \in DOMAIN st.ev :
           /\ st.ev[n].kind = "ret"
           /\ \E i \in CallsOf(n, "eval", IsMacro) :
                  /\ ExpandedOnce(n, i)
                  /\ \E x \in DOMAIN st.ev[i].xs : is_type(st, st.ev[i].xs[x], "CONS")
    /\ \E n \in DOMAIN st.ev : st.ev[n].kind = "ret" /\ DirectlyExpanded(n, "macroexpand-1")
    /\ \E n \in DOMAIN st.ev : st.ev[n].kind = "ret" /\ DirectlyExpanded(n, "apply")

IsBuiltin(o, name) ==
    is_type(st, o, "FUNCTION") /\ st.heap[o].is_user_defined = 0 /\ st.heap[o].fn = name

\* The direct macro calls made after event i, dd C frames above the
\* evaluation event n ends.
Directs(n, i, dd) ==
    {k \in (i + 1)..(n - 1) : MacroCall(k, "direct") /\ st.ev[k].depth = st.ev[n].depth + dd}

\* The call i of macroexpand-1 or macroexpand was given a macro call form:
\* a list whose head evaluated to a macro.
GivenMacroCall(n, i) ==
    /\ Len(st.ev[i].xs) >= 1 /\ is_type(st, st.ev[i].xs[1], "CONS")
    /\ \E h \in KidsAfter(n, i, "head") :
           /\ st.ev[h].form = car(st, st.ev[i].xs[1]) /\ IsMacro(st.ev[h].a)
           /\ \A g \in KidsAfter(n, i, "head") : h <= g

\* What the body of the macro called at event k yielded.
BodyValue(n, k) ==
    st.ev[CHOOSE b \in KidsAfter(n, k, "body") : \A c \in KidsAfter(n, k, "body") : b <= c].a

\* The value v is a list whose head evaluates, in frame env, to a macro.
MacroInHead(v, env) ==
    /\ is_type(st, v, "CONS")
    /\ \/ is_type(st, car(st, v), "MACRO")
       \/ /\ is_type(st, car(st, v), "SYMBOL")
          /\ is_type(st, env_get(st, env, NameOf(st, car(st, v))).value, "MACRO")

\* macroexpand-1 of a macro call form: the macro is called once with the
\* form and what its body yields is the result.
ExpandsOnce(n, i) ==
    GivenMacroCall(n, i) =>
        /\ Cardinality(Directs(n, i, 2)) = 1
        /\ \A k \in Directs(n, i, 2) :
               st.ev[k].form = st.ev[i].xs[1] /\ ReturnedAsIs(n, k)

\* macroexpand of a macro call form: a chain of expansions, the first of
\* the form, each next of what the one before yielded, the last yielding
\* the result, whose head evaluates to no macro.
ExpandsFully(n, i) ==
    GivenMacroCall(n, i) =>
        LET D == Directs(n, i, 3)
        IN /\ D # {}
           /\ \A k \in D : KidsAfter(n, k, "body") # {}
           /\ \A k \in D :
                  /\ (\A j \in D : k <= j) => st.ev[k].form = st.ev[i].xs[1]
                  /\ \A j \in D : (j < k /\ \A m \in D : ~(j < m /\ m < k))
                                  => st.ev[k].form = BodyValue(n, j)
                  /\ (\A j \in D : j <= k) => st.ev[n].a = BodyValue(n, k)
           /\ ~MacroInHead(st.ev[n].a, st.ev[i].b)

\* C12: macroexpand-1 of a macro call form yields the result of exactly one
\* expansion step, even when that result is a macro call; macroexpand goes
\* on expanding what it got until the head evaluates to no macro, so its
\* result has no macro in head position.
C12_MacroexpandSteps ==
    /\ \A n \in DOMAIN st.ev :
           st.ev[n].kind = "ret" =>
               \A i \in CallsOf(n, "eval", LAMBDA o : IsBuiltin(o, "macroexpand-1")) :
                   ExpandsOnce(n, i)
    /\ Logged("ret") =>
           \A i \in CallsOf(Len(st.ev), "eval", LAMBDA o : IsBuiltin(o, "macroexpand")) :
               ExpandsFully(Len(st.ev), i)

\* macroexpand-1 has returned a macro call, and macroexpand of the same form
\* has returned after more than one expansion.
C12_ExpandedInSteps ==
    /\ Logged("ret")
    /\ \E i \in CallsOf(Len(st.ev), "eval", LAMBDA o : IsBuiltin(o, "macroexpand")) :
           /\ GivenMacroCall(Len(st.ev), i)
           /\ Cardinality(Directs(Len(st.ev), i, 3)) >= 2
           /\ ExpandsFully(Len(st.ev), i)
    /\ \E n \in DOMAIN st.ev :
           /\ st.ev[n].kind = "ret"
           /\ \E i \in CallsOf(n, "eval", LAMBDA o : IsBuiltin(o, "macroexpand-1")) :
                  /\ GivenMacroCall(n, i)
                  /\ MacroInHead(st.ev[n].a, st.ev[i].b)
                  /\ ExpandsOnce(n, i)

\* The step has run a define to its end: its event is new and the last.
Defined ==
    /\ st'.ev # <<>> /\ st'.ev[Len(st'.ev)].kind = "define"
    /\ Len(st'.ev) = Len(st.ev) + 1

\* The bindings of a frame, as the set of its (key, value) pairs.
Bindings(s, env) == {<<s.envs[env].map[i].key, s.envs[env].map[i].value>> : i \in DOMAIN s.envs[env].map}

\* What the define that the step ran did: the value is what evaluating the
\* value form in the frame of the define yielded just before, the root
\* frame binds the name to it and nothing else in it changed, every other
\* frame is as it was, and nil is returned.
DefineEffect ==
    LET d == st'.ev[Len(st'.ev)]
        v == st.ev[Len(st.ev)]
    IN /\ v.kind = "ret" /\ v.role = "define-value" /\ v.c = d.c /\ v.a = d.a
       /\ v.form = car(st, cdr(st, cdr(st, d.form)))
       /\ d.b = st.gc_env /\ st.envs[d.b].prev = NULL
       /\ Bound(st', d.b, d.role) = d.a /\ MapHas(st'.envs[d.b].map, d.role)
       /\ {p \in Bindings(st', d.b) : p[1] # d.role} = {p \in Bindings(st, d.b) : p[1] # d.role}
       /\ \A e \in DOMAIN st.envs : e # d.b => st'.envs[e] = st.envs[e]
       /\ DOMAIN st'.envs = DOMAIN st.envs
       /\ st'.c.mode = "ret" /\ st'.c.v = NULL

\* Event i is the last write logged of its name in its frame.
LastWrite(i) ==
    \A j \in DOMAIN st.ev :
        (j > i /\ st.ev[j].kind \in {"define", "set"} /\ st.ev[j].role = st.ev[i].role)
        => st.ev[j].b # st.ev[i].b

\* What a define bound is what the root frame yields for the name from then
\* on, the enclosing let or call may have returned or not.
DefineVisible ==
    \A i \in DOMAIN st.ev :
        (st.ev[i].kind = "define" /\ LastWrite(i))
        => env_get(st, st.gc_env, st.ev[i].role) = [found |-> TRUE, value |-> st.ev[i].a]

\* C13: (define name value), at any frame depth, evaluates value in the
\* current frame, creates or overwrites the binding of name in the root
\* frame only, changes no binding of another frame and returns nil; the
\* binding stays visible after the enclosing let or call has returned.
C13_DefineWritesRoot == [][Defined => DefineEffect]_vars /\ []DefineVisible

\* A top-level let has returned in whose body a define, evaluated in the
\* let's frame, bound in the root frame a name the let's frame binds to
\* another value.
C13_DefinedInLet ==
    /\ Logged("ret") /\ LastEv.role = "top"
    /\ \E i \in DOMAIN st.ev :
           /\ st.ev[i].kind = "define" /\ st.ev[i].c # st.ev[i].b
           /\ MapHas(st.envs[st.ev[i].c].map, st.ev[i].role)
           /\ Bound(st, st.ev[i].c, st.ev[i].role) # st.ev[i].a
           /\ env_get(st, st.gc_env, st.ev[i].role) = [found |-> TRUE, value |-> st.ev[i].a]

\* The evaluations of position role that the eval waiting at stack depth d
\* has made so far.
MadeAt(d, role) ==
    {i \in DOMAIN st.ev :
        /\ st.ev[i].kind = "ret" /\ st.ev[i].role = role /\ st.ev[i].b = d
        /\ \A j \in DOMAIN st.ev : (st.ev[j].kind = "ret" /\ st.ev[j].depth = d) => j < i}

\* The body of a let is about to be evaluated: the frame it is given is a
\* child of the enclosing frame and binds exactly the names of the let, each
\* to what evaluating its value form in the enclosing frame yielded.
LetBodyFrame ==
    (st.c.mode = "call" /\ st.c.role = "let-body" /\ st.fault = "") =>
        LET f     == Top(st)
            L     == st.c.env
            pairs == Elems(st, car(st, cdr(st, f.obj)))
            V     == MadeAt(Len(st.k) - 1, "let-value")
            names == {NameOf(st, pairs[j]) : j \in {j \in DOMAIN pairs : j % 2 = 1}}
        IN /\ st.c.obj = car(st, cdr(st, cdr(st, f.obj)))
           /\ L # f.env /\ st.envs[L].prev = f.env
           /\ Cardinality(V) = (Len(pairs) + 1) \div 2
           /\ {st.envs[L].map[j].key : j \in DOMAIN st.envs[L].map} = names
           /\ \A i \in V :
                  LET r == Cardinality({j \in V : j <= i})
                  IN /\ st.ev[i].c = f.env
                     /\ st.ev[i].form = (IF 2 * r <= Len(pairs) THEN pairs[2 * r] ELSE NULL)
                     /\ (\A q \in DOMAIN pairs :
                             (q % 2 = 1 /\ q > 2 * r - 1)
                             => NameOf(st, pairs[q]) # NameOf(st, pairs[2 * r - 1]))
                        => Bound(st, L, NameOf(st, pairs[2 * r - 1])) = st.ev[i].a

IsLetForm(o) ==
    is_type(st, o, "CONS") /\ is_type(st, car(st, o), "SYMBOL") /\ NameOf(st, car(st, o)) = "let"

\* A let that has returned yielded what its body, evaluated once in a child
\* of the let's frame, yielded.
LetReturns ==
    \A n \in DOMAIN st.ev :
        (st.ev[n].kind = "ret" /\ IsLetForm(st.ev[n].form)) =>
            /\ Cardinality(KidsAfter(n, 0, "let-body")) = 1
            /\ \A b \in KidsAfter(n, 0, "let-body") :
                   /\ st.ev[n].a = st.ev[b].a
                   /\ st.ev[b].c # st.ev[n].c
                   /\ st.envs[st.ev[b].c].prev = st.ev[n].c

\* The steps of let itself (its entry, the binding of a value that has been
\* evaluated, its return) write the let's own frame, which the entry
\* creates, and leave every other frame as it was.
LetOwnSteps ==
    LET entry  == st.c.mode = "call" /\ Len(st'.k) > Len(st.k)
                  /\ Top(st').fn = "eval_let_special_form"
        resume == st.c.mode = "ret" /\ st.k # <<>> /\ Top(st).fn = "eval_let_special_form"
    IN (st'.fault = "" /\ st'.k # <<>> /\ (entry \/ resume)) =>
           LET L == IF entry THEN Top(st').local ELSE Top(st).local
           IN /\ \A e \in DOMAIN st.envs : e # L => st'.envs[e] = st.envs[e]
              /\ entry => (L \notin DOMAIN st.envs /\ DOMAIN st'.envs = DOMAIN st.envs \cup {L})
              /\ ~entry => DOMAIN st'.envs = DOMAIN st.envs

\* C14: in (let (n1 v1 ... nk vk) body) every vi is evaluated in the
\* enclosing frame, the names are bound only in a fresh child frame, in
\* which body is evaluated, the let yields body's value, and the let itself
\* adds or changes no binding of the enclosing frame.
C14_LetScoping == [][LetOwnSteps]_vars /\ [](LetBodyFrame /\ LetReturns)

\* A let of two names has returned its body's value; the value form of the
\* second is the first name, which the enclosing frame binds to another
\* value than the let does.
C14_LetEvaluated ==
    /\ Logged("ret") /\ IsLetForm(LastEv.form)
    /\ \E b \in KidsAfter(Len(st.ev), 0, "let-body") : LastEv.a = st.ev[b].a
    /\ \E i, j \in KidsAfter(Len(st.ev), 0, "let-value") :
           /\ i < j /\ st.ev[i].a # st.ev[j].a
           /\ is_type(st, st.ev[j].form, "SYMBOL")
           /\ st.ev[j].form = car(st, cdr(st, cdr(st, cdr(st, car(st, cdr(st, LastEv.form))))))
           /\ NameOf(st, st.ev[j].form) = NameOf(st, car(st, car(st, cdr(st, LastEv.form))))
           /\ st.ev[j].a = env_get(st, LastEv.c, NameOf(st, st.ev[j].form)).value
           /\ st.ev[j].a # NULL

\* The step is the one of exec that follows the evaluation of a form to an
\* Error value.
ErrorResult ==
    /\ st.c.mode = "ret" /\ st.k # <<>> /\ Top(st).fn = "exec" /\ Top(st).at = "res"
    /\ is_type(st, st.c.v, "ERROR")
    /\ st'.fault = ""

\* C15: when exec has evaluated a form to an Error value it writes the
\* Error to the error stream and returns: nothing more of the text is read
\* or evaluated, and the frames, with the bindings the earlier forms made,
\* stay as they are.
C15_ErrorStopsBatch ==
    [][ErrorResult =>
           /\ st'.out = Append(st.out, [fd |-> "stderr", obj |-> st.c.v, type |-> "ERROR"])
           /\ st'.k = SubSeq(st.k, 1, Len(st.k) - 1)
           /\ st'.c.mode = "ret"
           /\ st'.ev = st.ev /\ st'.nextid = st.nextid /\ st'.heap = st.heap
           /\ st'.envs = st.envs]_vars

\* The outermost exec has returned on an Error value with text left unread,
\* after a form of the same text bound a number in the root frame.
C15_BatchStopped ==
    /\ pc = "exec" /\ st.k = <<>> /\ st.fault = ""
    /\ is_type(st, st.last, "ERROR") /\ st.forms >= 2
    /\ st.skipped # <<>>
    /\ st.out # <<>> /\ st.out[Len(st.out)] = [fd |-> "stderr", obj |-> st.last, type |-> "ERROR"]
    /\ \E i \in DOMAIN st.envs[st.gc_env].map :
           is_type(st, st.envs[st.gc_env].map[i].value, "NUMBER")

\* The token the lexer made last is a string literal that a line end or
\* the end of the text cut: the scan took a newline or the zero byte that
\* ends the text for a character of the string.
StringCut == lx.tok.type = "T_STRING" /\ \E i \in DOMAIN lx.tok.value : lx.tok.value[i] \in {10, NUL}

\* C16: when the lexer meets the end of a line or the end of the text in a
\* string literal, reading yields an Error value, and the cursor never
\* moves past the end of the text.
C16_UnterminatedString ==
    /\ lx.p <= Len(lx.text) + 1
    /\ pc # "crashed"
    /\ (lx.read /\ StringCut) => is_type(st, lx.obj, "ERROR")

\* The form the outermost exec is evaluating, or has just evaluated.
TopForm == st.k[1].obj

\* The form o is (dotimes body n) with a number n that is not negative.
IsDotimes(o) ==
    /\ is_type(st, o, "CONS") /\ is_type(st, car(st, o), "SYMBOL")
    /\ NameOf(st, car(st, o)) = "dotimes"
    /\ is_type(st, car(st, cdr(st, cdr(st, o))), "NUMBER")
    /\ st.heap[car(st, cdr(st, cdr(st, o)))].num >= 0
    /\ UserDefined(st, env_get(st, st.gc_env, "dotimes").value, {"MACRO"})

\* How often the body of the dotimes form o has been evaluated so far.
TimesRun(o) ==
    Cardinality({i \in DOMAIN st.ev : /\ st.ev[i].kind = "ret" /\ st.ev[i].role = "eval-result"
                                      /\ st.ev[i].form = car(st, cdr(st, o))})

\* C17: (dotimes body n), n not negative, evaluates body exactly n times and
\* then returns: at no moment has body been evaluated more than n times, the
\* evaluation does not fail, and when the form has returned body has been
\* evaluated n times.
C17_DotimesCount ==
    (pc = "exec" /\ st.k # <<>> /\ st.k[1].fn = "exec" /\ IsDotimes(TopForm)) =>
        /\ TimesRun(TopForm) <= st.heap[car(st, cdr(st, cdr(st, TopForm)))].num
        /\ st.fault = ""
        /\ (Logged("ret") /\ LastEv.role = "top" /\ LastEv.form = TopForm)
           => TimesRun(TopForm) = st.heap[car(st, cdr(st, cdr(st, TopForm)))].num

\* The collector's last act in the form under evaluation was a sweep.
Swept == st.gclog # <<>> /\ st.gclog[Len(st.gclog)].op = "sweep"

\* C18: when gc_sweep has returned no object of the registry and no frame is
\* marked any more, the captured frames of closures that are held in cons
\* cells included.
C18_MarksReset ==
    Swept =>
        /\ \A o \in DOMAIN st.heap : ~st.heap[o].freed => st.heap[o].marked = 0
        /\ \A e \in DOMAIN st.envs : st.envs[e].marked = 0

(***************************************************************************)
(* C19: collections happen only between top-level forms: whenever gc_mark  *)
(* or gc_sweep runs, no call of eval is in progress.  The log keeps, for   *)
(* every collection run in the course of a form, the number of evals then  *)
(* on the stack.                                                           *)
(***************************************************************************)
C19_CollectBetweenForms ==
    \A i \in DOMAIN st.gclog : st.gclog[i].evals = 0

(***************************************************************************)
(* C20: frames are collected: a frame that the root frame, the live        *)
(* closures and the evaluator's stack no longer reach when a sweep runs is *)
(* released by it, so that no frame a logged sweep found lost is still     *)
(* allocated.                                                              *)
(***************************************************************************)
C20_FramesCollected ==
    \A i \in DOMAIN st.gclog :
        st.gclog[i].op = "sweep" => st.gclog[i].lost \cap DOMAIN st.envs = {}

(***************************************************************************)
(* C21: after each top-level form evaluated by exec a mark-sweep cycle     *)
(* runs if and only if the allocations since the last sweep are at least   *)
(* 1.25 times the objects that survived the last collection.               *)
(***************************************************************************)
C21_TriggerOnSurvivors ==
    \A i \in DOMAIN st.trigger :
        st.trigger[i].ran <=> st.trigger[i].since * 4 >= st.trigger[i].live * 5

(***************************************************************************)
(* C22: no permanent garbage.  A step in which a sweep runs releases every *)
(* object that the root frame did not reach and that was unmarked before   *)
(* it, and leaves every object it keeps unmarked; a step that marks an     *)
(* object marks one the root frame reaches.  An unreachable object is      *)
(* hence kept by one sweep at most, the one that clears its mark.          *)
(***************************************************************************)
Live(s) == {o \in DOMAIN s.heap : ~s.heap[o].freed}

Garbage(s) == Live(s) \ ReachRoot(s).objs

SweepFrees ==
    st'.sweeps > st.sweeps =>
        /\ \A o \in Garbage(st) : st.heap[o].marked = 0 => o \notin Live(st')
        /\ \A o \in Live(st') : st'.heap[o].marked = 0

MarksReachable ==
    LET marked == {o \in DOMAIN st'.heap : st'.heap[o].marked = 1}
    IN marked # {} =>
           {o \in marked \cap Live(st) : st.heap[o].marked = 0} \subseteq ReachRoot(st).objs

C22_NoPermanentGarbage == [][SweepFrees /\ MarksReachable]_vars

\* A sweep has released objects that neither the root frame nor the C stack
\* reached.
C22_GarbageReclaimed == st.sweeps > 0 /\ st.reclaimed > 0

(***************************************************************************)
(* C23: the heap registry is a well-formed doubly linked list at all       *)
(* times: x.prev.next = x, x.next.prev = x, the tail has no next, and the  *)
(* walk from the tail along prev meets every object allocated and not yet  *)
(* released, each once.                                                    *)
(***************************************************************************)
IsLive(s, o) == o \in DOMAIN s.heap /\ ~s.heap[o].freed

WellLinked(s) ==
    /\ \A x \in DOMAIN s.heap :
          ~s.heap[x].freed =>
              /\ s.heap[x].prev # NULL =>
                     IsLive(s, s.heap[x].prev) /\ s.heap[s.heap[x].prev].next = x
              /\ s.heap[x].next # NULL =>
                     IsLive(s, s.heap[x].next) /\ s.heap[s.heap[x].next].prev = x
    /\ IF s.tail = NULL THEN Live(s) = {}
       ELSE IsLive(s, s.tail) /\ s.heap[s.tail].next = NULL

C23_RegistryIntact ==
    /\ WellLinked(st)
    /\ IsLive(st, st.tail) =>
           \E w \in {Registry(st)} :
               w.chain = Live(st) /\ w.rank[st.tail] = Cardinality(Live(st))

(***************************************************************************)
(* C24: (do e1 ... en) evaluates every ei once, in the order e1 to en,     *)
(* whatever the ei are, and returns the value of en, nil when there is no  *)
(* element: when the do form typed at the top level has returned, its      *)
(* evaluation made one evaluation per element, in order, and yielded what  *)
(* the last one yielded.                                                   *)
(***************************************************************************)
IsDoForm(o) ==
    is_type(st, o, "CONS") /\ is_type(st, car(st, o), "SYMBOL") /\ NameOf(st, car(st, o)) = "do"

DoSequenced(n) ==
    LET es == Elems(st, cdr(st, st.ev[n].form))
        K  == KidsAfter(n, 0, "do-element")
        Nth(k) == Cardinality({j \in K : j <= k})
    IN /\ Cardinality(K) = Len(es)
       /\ \A k \in K : Nth(k) <= Len(es) /\ st.ev[k].form = es[Nth(k)]
       /\ IF es = <<>> THEN st.ev[n].a = NULL
          ELSE \E k \in K : Nth(k) = Len(es) /\ st.ev[k].a = st.ev[n].a

C24_DoSequencing ==
    (/\ pc = "exec" /\ st.k # <<>> /\ st.k[1].fn = "exec" /\ st.fault = "" /\ ~st.uaf
     /\ Logged("ret") /\ LastEv.role = "top" /\ LastEv.form = TopForm /\ IsDoForm(TopForm))
        => DoSequenced(Len(st.ev))

(***************************************************************************)
(* C25: quasiquote leaves its template untouched and fills it in anew each *)
(* time.  No step changes the car or cdr of a cons cell of the template of *)
(* a quasiquote form that is being entered or is under evaluation; and the *)
(* value of a quasiquote of a list is the template with the unquotes among *)
(* its elements, at any depth, replaced by what they yielded in the frame  *)
(* of this evaluation.                                                     *)
(***************************************************************************)
IsQuasiquote(s, o) ==
    is_type(s, o, "CONS") /\ is_type(s, car(s, o), "SYMBOL")
    /\ s.heap[car(s, o)].str = "quasiquote"

\* The templates of the quasiquote forms entered or under evaluation.
Templates(s) ==
    {car(s, cdr(s, s.k[i].obj)) : i \in {j \in DOMAIN s.k : s.k[j].fn = "eval_quasiquote_special_form"}}
    \cup (IF s.c.mode = "call" /\ s.c.fn = "eval" /\ IsQuasiquote(s, s.c.obj)
          THEN {car(s, cdr(s, s.c.obj))} ELSE {})

TemplateKept ==
    \A t \in Templates(st) \ {NULL} :
        \A o \in Reach(st, {t}, {}).objs :
            (IsAlloc(st, o) /\ IsAlloc(st', o)) =>
                /\ st'.heap[o].car = st.heap[o].car
                /\ st'.heap[o].cdr = st.heap[o].cdr
                /\ st'.heap[o].type = st.heap[o].type

\* r is the list t with the unquotes among its elements replaced by values.
RECURSIVE Filled(_, _)
Filled(t, r) ==
    IF ~is_type(st, t, "CONS") THEN Same(st, t, r)
    ELSE /\ is_type(st, r, "CONS")
         /\ IF is_unquote(st, car(st, t)) THEN ValueOf(car(st, cdr(st, car(st, t))), car(st, r))
            ELSE Filled(car(st, t), car(st, r))
         /\ Filled(cdr(st, t), cdr(st, r))

Refilled ==
    (Logged("qq") /\ is_type(st, LastEv.form, "CONS") /\ st.fault = "" /\ ~st.uaf) =>
        Filled(LastEv.form, LastEv.a)

C25_TemplateUntouched == [][TemplateKept]_vars /\ []Refilled

\* A template with unquotes has been filled in a second time in the course
\* of one form, in another frame and with another value.
C25_FilledTwice ==
    /\ Logged("qq") /\ HasUnquote(st, LastEv.form) /\ st.fault = "" /\ ~st.uaf
    /\ \E i \in 1..(Len(st.ev) - 1) :
           /\ st.ev[i].kind = "qq" /\ st.ev[i].form = LastEv.form /\ st.ev[i].c # LastEv.c
           /\ ~Same(st, st.ev[i].a, LastEv.a)

(***************************************************************************)
(* C26: (= a b) agrees with the reference relation: symbols equal by name, *)
(* numbers and booleans by value, strings by content, cons cells           *)
(* structurally, nil only with nil, values of different kinds never, and   *)
(* callables only when they are the same object.                           *)
(***************************************************************************)
\* The last two events are the call of the built-in = and its return.
EqualCalled ==
    /\ Len(st.ev) >= 2 /\ Logged("ret")
    /\ st.ev[Len(st.ev) - 1].kind = "call" /\ IsBuiltin(st.ev[Len(st.ev) - 1].a, "=")
    /\ LastEv.depth = st.ev[Len(st.ev) - 1].depth - 1
    /\ st.fault = "" /\ ~st.uaf

C26_EqualityRelation ==
    EqualCalled =>
        LET a == Arg(st.ev[Len(st.ev) - 1].xs, 0)
            b == Arg(st.ev[Len(st.ev) - 1].xs, 1)
        IN (~is_type(st, a, "ERROR") /\ ~is_type(st, b, "ERROR")) =>
               /\ is_type(st, LastEv.a, "BOOL")
               /\ st.heap[LastEv.a].num = 1 <=> Same(st, a, b)

(***************************************************************************)
(* C27: the mark phase terminates on every heap graph, cyclic cons         *)
(* structures and cycles of closures and frames included: no gc_mark is    *)
(* caught in a recursion of object_mark that never returns.                *)
(***************************************************************************)
C27_MarkTerminates == st.fault # "mark recursion"

(***************************************************************************)
(* C28: a form whose head evaluates to a value that is neither nil nor a   *)
(* function or macro yields an Error, and the evaluator never reads such a *)
(* value as a callable nor calls it.                                       *)
(***************************************************************************)
NonCallable(v) ==
    IsAlloc(st, v) /\ ~(is_type(st, v, "FUNCTION") \/ is_type(st, v, "MACRO"))

C28_NonCallableHead ==
    /\ ~st.wild
    /\ st.fault # "call of a non-callable"
    /\ (Logged("ret") /\ \E h \in KidsAfter(Len(st.ev), 0, "head") : NonCallable(st.ev[h].a))
           => is_type(st, LastEv.a, "ERROR")

(***************************************************************************)
(* C29: on every finite text that ends with a zero byte the lexer reaches  *)
(* T_EOF in finitely many steps and never reads past the zero byte: no     *)
(* call of next fails to return, none scans beyond the end of the text,    *)
(* and the cursor stays within the text.                                   *)
(***************************************************************************)
C29_ReaderTerminates ==
    /\ pc # "hung"
    /\ pc # "crashed"
    /\ ~lx.tok.ub
    /\ lx.p <= Len(lx.text) + 1

(***************************************************************************)
(* C30: failing tests are reported.  A deftest form in whose evaluation an *)
(* assert met a falsy condition, and so made the Error "assertion failed", *)
(* does not evaluate to true, the value for which exec_tests prints PASS.  *)
(***************************************************************************)
IsDeftest(o) ==
    /\ is_type(st, o, "CONS") /\ is_type(st, car(st, o), "SYMBOL")
    /\ NameOf(st, car(st, o)) = "deftest"
    /\ UserDefined(st, env_get(st, st.gc_env, "deftest").value, {"MACRO"})

\* An assert of the form under evaluation has failed.
AssertFailed ==
    \E i \in DOMAIN st.ev :
        /\ st.ev[i].kind = "ret" /\ st.ev[i].role = "set-value"
        /\ is_type(st, st.ev[i].a, "ERROR") /\ st.heap[st.ev[i].a].str = "assertion failed"

\* exec_tests counts the value v of a test as passed.
Passed(v) == is_type(st, v, "BOOL") /\ st.heap[v].num = 1

C30_FailingTestReported ==
    (/\ pc = "exec" /\ st.k # <<>> /\ st.k[1].fn = "exec" /\ st.fault = "" /\ ~st.uaf
     /\ Logged("ret") /\ LastEv.role = "top" /\ LastEv.form = TopForm /\ IsDeftest(TopForm)
     /\ AssertFailed)
        => ~Passed(LastEv.a)
====
